---------------------------- MODULE Spec2Model ----------------------------
(***************************************************************************)
(* Model of the document-store / search-index synchronisation of           *)
(* cms-strapi-app:                                                         *)
(*   src/src/index.ts                      lifecycle hooks, enrichment     *)
(*   src/src/api/document-store/controllers/meilisearch-controller.ts      *)
(*                                         MeiliSearchManager              *)
(*   src/unnamed/part_000                  the inline variant of the hooks *)
(*                                                                         *)
(* JavaScript values are tagged records, JavaScript objects are functions  *)
(* from the names of their own properties to values.                       *)
(***************************************************************************)
EXTENDS Integers, Sequences, FiniteSets, TLC

VARIABLES
    store,        \* the source-of-truth rows, by internal id
    index,        \* the engine's documents, by primary-key value
    primaryKey,   \* the attribute the engine's index is keyed by
    tasks,        \* the requests in flight, one per slot, with their hooks' position
    nextId,       \* the next internal id the store hands out
    ops,          \* the number of requests dispatched so far
    faults,       \* history: a post-hook's store lookup threw or an engine call failed
    revisions,    \* history: the documentIds a second row was created for
    target,       \* Field Mapper alone: the strapiData handed to mapAPIFieldsToStrapi
    payload,      \* Field Mapper alone: the apiData handed to it
    merged,       \* Field Mapper alone: what the call left, once it was made
    manager,      \* the call of a MeiliSearchManager operation in progress, or the last one
    pending,      \* the engine's tasks accepted and not yet applied to the index, in order
    calls,        \* the number of manager operations called so far
    record,       \* Document Transformer alone: the Source Record handed to it
    searchable,   \* Document Transformer alone: the document it made of the record
    upserted,     \* Document Transformer alone: the upserts of the record so far
    inlineIndex   \* the engine's documents under the inline variant of the hooks

hookVars == <<store, index, primaryKey, tasks, nextId, ops, faults, revisions>>
mapperVars == <<target, payload, merged>>
managerVars == <<manager, pending, calls>>
transformVars == <<record, searchable, upserted>>
variantVars == <<inlineIndex>>
vars == <<hookVars, mapperVars, managerVars, transformVars, variantVars>>

---------------------------------------------------------------------------
(* Bounds of the model *)

MaxRecords == 2
MaxOps == 2
MaxTasks == 2
MaxDocuments == 250    \* the published rows a rebuild fetches, at most
MaxCalls == 1          \* the manager operations that write to the index, called one after the other
MaxUpserts == 2        \* the upserts of one unchanged record, one after the other

---------------------------------------------------------------------------
(* JavaScript values *)

JSUndefined == [t |-> "undefined"]
JSNull == [t |-> "null"]
Str(s) == [t |-> "string", v |-> s]
Num(n) == [t |-> "number", v |-> n]
Bool(b) == [t |-> "boolean", v |-> b]
\* an array of strings
Arr(a) == [t |-> "array", v |-> a]
\* an array of rich-text blocks
Blocks(b) == [t |-> "blocks", v |-> b]
\* an array of attachment objects
Files(a) == [t |-> "files", v |-> a]
\* a plain object
Obj(o) == [t |-> "object", v |-> o]

IsString(x) == x.t = "string"
IsArray(x) == x.t \in {"array", "blocks", "files"}
IsNullish(x) == x.t \in {"undefined", "null"}

\* JavaScript's ToBoolean
Truthy(x) ==
    CASE x.t = "undefined" -> FALSE
      [] x.t = "null" -> FALSE
      [] x.t = "string" -> x.v # ""
      [] x.t = "number" -> x.v # 0
      [] x.t = "boolean" -> x.v
      [] OTHER -> TRUE

\* a || b
OrElse(a, b) == IF Truthy(a) THEN a ELSE b

\* o.hasOwnProperty(f), o[f], and o[f] = x
HasOwnProperty(o, f) == f \in DOMAIN o
Get(o, f) == IF f \in DOMAIN o THEN o[f] ELSE JSUndefined
Put(o, f, x) == (f :> x) @@ o
EmptyObject == [k \in {} |-> JSUndefined]

---------------------------------------------------------------------------
(* Strings *)

RECURSIVE JoinStrings(_, _)
\* Array.prototype.join over strings
JoinStrings(seq, sep) ==
    IF seq = << >> THEN ""
    ELSE IF Len(seq) = 1 THEN seq[1]
    ELSE seq[1] \o sep \o JoinStrings(Tail(seq), sep)

LowerChar(c) ==
    CASE c = "A" -> "a" [] c = "B" -> "b" [] c = "C" -> "c" [] c = "D" -> "d"
      [] c = "E" -> "e" [] c = "F" -> "f" [] c = "G" -> "g" [] c = "H" -> "h"
      [] c = "I" -> "i" [] c = "J" -> "j" [] c = "K" -> "k" [] c = "L" -> "l"
      [] c = "M" -> "m" [] c = "N" -> "n" [] c = "O" -> "o" [] c = "P" -> "p"
      [] c = "Q" -> "q" [] c = "R" -> "r" [] c = "S" -> "s" [] c = "T" -> "t"
      [] c = "U" -> "u" [] c = "V" -> "v" [] c = "W" -> "w" [] c = "X" -> "x"
      [] c = "Y" -> "y" [] c = "Z" -> "z" [] OTHER -> c

RECURSIVE ToLowerCase(_)
\* String.prototype.toLowerCase, by halves
ToLowerCase(s) ==
    IF Len(s) = 0 THEN ""
    ELSE IF Len(s) = 1 THEN LowerChar(s)
    ELSE ToLowerCase(SubSeq(s, 1, Len(s) \div 2))
         \o ToLowerCase(SubSeq(s, Len(s) \div 2 + 1, Len(s)))

IsSpace(c) == c \in {" ", "\t", "\n", "\r"}

RECURSIVE TrimStart(_)
TrimStart(s) ==
    IF Len(s) = 0 THEN ""
    ELSE IF IsSpace(SubSeq(s, 1, 1)) THEN TrimStart(SubSeq(s, 2, Len(s)))
    ELSE s

RECURSIVE TrimEnd(_)
TrimEnd(s) ==
    IF Len(s) = 0 THEN ""
    ELSE IF IsSpace(SubSeq(s, Len(s), Len(s))) THEN TrimEnd(SubSeq(s, 1, Len(s) - 1))
    ELSE s

\* String.prototype.trim
Trim(s) == TrimEnd(TrimStart(s))

Digit(d) ==
    CASE d = 0 -> "0" [] d = 1 -> "1" [] d = 2 -> "2" [] d = 3 -> "3" [] d = 4 -> "4"
      [] d = 5 -> "5" [] d = 6 -> "6" [] d = 7 -> "7" [] d = 8 -> "8" [] OTHER -> "9"

RECURSIVE NatText(_)
\* the decimal text of a natural number
NatText(n) == IF n < 10 THEN Digit(n) ELSE NatText(n \div 10) \o Digit(n % 10)

\* the string an array's join makes of one element
ElementText(x) ==
    CASE x.t = "string" -> x.v
      [] x.t = "array" -> JoinStrings(x.v, ",")
      [] x.t = "number" -> NatText(x.v)
      [] x.t = "boolean" -> IF x.v THEN "true" ELSE "false"
      [] x.t \in {"undefined", "null"} -> ""
      [] OTHER -> "[object Object]"

RECURSIVE SelectTruthy(_)
\* Array.prototype.filter(Boolean)
SelectTruthy(seq) ==
    IF seq = << >> THEN << >>
    ELSE IF Truthy(Head(seq)) THEN <<Head(seq)>> \o SelectTruthy(Tail(seq))
    ELSE SelectTruthy(Tail(seq))

\* values.filter(Boolean).join(sep)
JoinTruthy(seq, sep) ==
    LET kept == SelectTruthy(seq)
    IN JoinStrings([i \in 1..Len(kept) |-> ElementText(kept[i])], sep)

---------------------------------------------------------------------------
(* Field Mapper: mapAPIFieldsToStrapi *)

EnumFields ==
    <<"Client_Type", "Document_Confidentiality", "Document_Type", "Document_Sub_Type",
      "Document_Outcome", "Industry", "Sub_Industry", "Service", "Sub_Service",
      "Business_Unit", "Region", "Country", "State", "City", "Commercial_Program">>

schemaEnums ==
    [Client_Type |-> {"Global Key Client", "Regional Key Client",
                      "Regional Market Portfolio", "Client"},
     Document_Confidentiality |-> {"Not Confidential", "Confidential"},
     Document_Type |-> {"Proposal", "External case study", "Internal win story",
                        "Experience listing", "Pitch content", "Marketing material",
                        "Thought leadership"},
     Document_Sub_Type |-> {"Sole-source", "RFP Response", "Competitive", "Change Order",
                            "Standalone", "EOI", "RFI", "RFQ"},
     Document_Outcome |-> {"Won", "Lost", "Abandoned", "Decision in progress",
                           "Scope changed (Proposal Revised)",
                           "Full Proposal Not Yet Submitted"},
     Industry |-> {"Industry A", "Industry B", "Industry C"},
     Sub_Industry |-> {"Sub A", "Sub B", "Sub C"},
     Service |-> {"Service A", "Service B", "Service C"},
     Sub_Service |-> {"Sub A", "Sub B", "Sub C"},
     Business_Unit |-> {"BU A", "BU B", "BU C"},
     Region |-> {"Region A", "Region B", "Region C"},
     Country |-> {"India", "USA", "UK"},
     State |-> {"Delhi", "California", "London"},
     City |-> {"New Delhi", "San Francisco", "Manchester"},
     Commercial_Program |-> {"R2L", "High Priority", "N/A"}]

\* validateEnum: a falsy value, or a field without an allow-list, passes through
validateEnum(field, value) ==
    IF ~Truthy(value) \/ field \notin DOMAIN schemaEnums THEN value
    ELSE IF IsString(value) /\ value.v \in schemaEnums[field] THEN value
    ELSE JSNull

\* a Description transformer that leaves the string as it is
DescriptionKeptAsText(val) == val

\* the Description transformer: a string becomes one paragraph block
DescriptionBlocks(val) ==
    IF IsString(val)
    THEN Blocks(<<[type |-> "paragraph", children |-> <<[type |-> "text", text |-> val.v]>>]>>)
    ELSE val

DigitValue(c) ==
    CASE c = "0" -> 0 [] c = "1" -> 1 [] c = "2" -> 2 [] c = "3" -> 3 [] c = "4" -> 4
      [] c = "5" -> 5 [] c = "6" -> 6 [] c = "7" -> 7 [] c = "8" -> 8 [] c = "9" -> 9
      [] OTHER -> -1

IsDigits(s) == \A i \in 1..Len(s) : DigitValue(SubSeq(s, i, i)) >= 0

RECURSIVE DigitsValue(_)
DigitsValue(s) ==
    IF Len(s) = 0 THEN 0
    ELSE 10 * DigitsValue(SubSeq(s, 1, Len(s) - 1)) + DigitValue(SubSeq(s, Len(s), Len(s)))

DaysInMonth(y, m) ==
    IF m = 2 THEN (IF (y % 4 = 0 /\ y % 100 # 0) \/ y % 400 = 0 THEN 29 ELSE 28)
    ELSE IF m \in {4, 6, 9, 11} THEN 30 ELSE 31

\* "YYYY-MM-DD" with a month and a day of the calendar
IsCalendarDate(s) ==
    /\ Len(s) = 10
    /\ SubSeq(s, 5, 5) = "-" /\ SubSeq(s, 8, 8) = "-"
    /\ IsDigits(SubSeq(s, 1, 4)) /\ IsDigits(SubSeq(s, 6, 7)) /\ IsDigits(SubSeq(s, 9, 10))
    /\ DigitsValue(SubSeq(s, 6, 7)) \in 1..12
    /\ DigitsValue(SubSeq(s, 9, 10)) \in 1..31

\* "THH:MM:SSZ"
IsUtcTime(s) ==
    /\ Len(s) = 10
    /\ SubSeq(s, 1, 1) = "T" /\ SubSeq(s, 4, 4) = ":" /\ SubSeq(s, 7, 7) = ":"
    /\ SubSeq(s, 10, 10) = "Z"
    /\ IsDigits(SubSeq(s, 2, 3)) /\ IsDigits(SubSeq(s, 5, 6)) /\ IsDigits(SubSeq(s, 8, 9))
    /\ DigitsValue(SubSeq(s, 2, 3)) \in 0..23
    /\ DigitsValue(SubSeq(s, 5, 6)) \in 0..59
    /\ DigitsValue(SubSeq(s, 8, 9)) \in 0..59

\* new Date(val) on the ISO forms "YYYY-MM-DD" and "YYYY-MM-DDTHH:MM:SSZ", both UTC;
\* any other text is taken as unparseable (NaN)
IsValidDate(s) ==
    \/ IsCalendarDate(s)
    \/ Len(s) = 20 /\ IsCalendarDate(SubSeq(s, 1, 10)) /\ IsUtcTime(SubSeq(s, 11, 20))

Pad2(n) == IF n < 10 THEN "0" \o Digit(n) ELSE NatText(n)

\* date.toISOString().split('T')[0]: a day past the month's end rolls into the next month
IsoDay(s) ==
    LET y == DigitsValue(SubSeq(s, 1, 4))
        m == DigitsValue(SubSeq(s, 6, 7))
        d == DigitsValue(SubSeq(s, 9, 10))
        over == d > DaysInMonth(y, m)
        d2 == IF over THEN d - DaysInMonth(y, m) ELSE d
        m2 == IF over THEN (IF m = 12 THEN 1 ELSE m + 1) ELSE m
        y2 == IF over /\ m = 12 THEN y + 1 ELSE y
    IN SubSeq(s, 1, 4 - Len(NatText(y2))) \o NatText(y2) \o "-" \o Pad2(m2) \o "-" \o Pad2(d2)

\* the Last_Stage_Change_Date transformer
DateOnly(val) ==
    IF IsString(val)
    THEN (IF IsValidDate(val.v) THEN Str(IsoDay(val.v)) ELSE JSNull)
    ELSE val

\* the Author / SMEs transformer
PeopleList(val) == IF val.t = "array" THEN Str(JoinStrings(val.v, ", ")) ELSE val

\* mappings that also assign publishedAt and a field of the payload's own
FieldMappingsAndMore ==
    [i \in 1..Len(EnumFields) |-> [field |-> EnumFields[i], kind |-> "enum"]]
    \o <<[field |-> "publishedAt", kind |-> "plain"],
         [field |-> "Internal_Notes", kind |-> "plain"]>>

\* the populateField calls of mapAPIFieldsToStrapi, in the order of the code
FieldMappings ==
    <<[field |-> "Unique_Id", kind |-> "plain"],
      [field |-> "Client_Name", kind |-> "plain"],
      [field |-> "Client_Contact", kind |-> "plain"],
      [field |-> "Client_Contact_Buying_Center", kind |-> "plain"],
      [field |-> "Client_Journey", kind |-> "plain"],
      [field |-> "Document_Value_Range", kind |-> "plain"],
      [field |-> "Competitors", kind |-> "plain"]>>
    \o [i \in 1..Len(EnumFields) |-> [field |-> EnumFields[i], kind |-> "enum"]]
    \o <<[field |-> "Description", kind |-> "description"],
         [field |-> "Last_Stage_Change_Date", kind |-> "date"],
         [field |-> "Author", kind |-> "people"],
         [field |-> "SMEs", kind |-> "people"]>>

MappedFields == {FieldMappings[i].field : i \in 1..Len(FieldMappings)}

\* the transformer a mapping passes to populateField
ApplyTransformer(kind, field, val) ==
    CASE kind = "enum" -> validateEnum(field, val)
      [] kind = "description" -> DescriptionBlocks(val)
      [] kind = "date" -> DateOnly(val)
      [] kind = "people" -> PeopleList(val)
      [] OTHER -> val

\* populateField without the test of the target field
populateFieldOverwriting(strapiData, mapping, apiValue) ==
    IF apiValue.t # "undefined" /\ apiValue.t # "null"
    THEN Put(strapiData, mapping.field, ApplyTransformer(mapping.kind, mapping.field, apiValue))
    ELSE strapiData

\* populateField: assign only an empty target field, and only a usable value
populateField(strapiData, mapping, apiValue) ==
    IF /\ ~Truthy(Get(strapiData, mapping.field))
       /\ apiValue.t # "undefined"
       /\ apiValue.t # "null"
       /\ ~(IsString(apiValue) /\ apiValue.v = "")
    THEN LET transformedValue == ApplyTransformer(mapping.kind, mapping.field, apiValue)
         IN IF transformedValue.t # "null"
            THEN Put(strapiData, mapping.field, transformedValue)
            ELSE strapiData
    ELSE strapiData

\* apiData.<field>: a property of an object; undefined on any other non-nullish value
ApiField(apiData, f) == IF apiData.t = "object" THEN Get(apiData.v, f) ELSE JSUndefined

\* what the i-th populateField call makes of strapiData
Populated(strapiData, apiData, i) ==
    populateField(strapiData, FieldMappings[i], ApiField(apiData, FieldMappings[i].field))

\* all populateField calls: each reads and assigns only its own field and no field is
\* mapped twice, so the calls in sequence assign what each call alone assigns
PopulateAll(strapiData, apiData) ==
    LET assigning == {i \in 1..Len(FieldMappings) :
                         Populated(strapiData, apiData, i) # strapiData}
    IN [f \in DOMAIN strapiData \cup {FieldMappings[i].field : i \in assigning} |->
           IF \E i \in assigning : FieldMappings[i].field = f
           THEN Populated(strapiData, apiData,
                          CHOOSE i \in assigning : FieldMappings[i].field = f)[f]
           ELSE strapiData[f]]

\* mapAPIFieldsToStrapi: reading a property of null or undefined throws a TypeError at
\* the first mapping, before anything is assigned
mapAPIFieldsToStrapi(strapiData, apiData) ==
    IF IsNullish(apiData)
    THEN [threw |-> TRUE, data |-> strapiData]
    ELSE [threw |-> FALSE, data |-> PopulateAll(strapiData, apiData)]

---------------------------------------------------------------------------
(* Document Transformer: MeiliSearchManager.transformDocumentForSearch *)

\* the texts of a block's text-typed children, joined by one space; '' without children
BlockText(block) ==
    IF "children" \in DOMAIN block
    THEN LET texts == SelectSeq(block.children, LAMBDA child : child.type = "text")
         IN JoinStrings([i \in 1..Len(texts) |->
                            IF "text" \in DOMAIN texts[i] THEN texts[i].text ELSE ""], " ")
    ELSE ""

\* extractTextFromBlocks
extractTextFromBlocks(blocks) ==
    IF ~Truthy(blocks) \/ ~IsArray(blocks) THEN ""
    ELSE IF blocks.t # "blocks" THEN Trim(JoinStrings([i \in 1..Len(blocks.v) |-> ""], " "))
    ELSE Trim(JoinStrings([i \in 1..Len(blocks.v) |-> BlockText(blocks.v[i])], " "))

\* formatAttachments
formatAttachments(attachments) ==
    IF ~Truthy(attachments) \/ ~IsArray(attachments) THEN ""
    ELSE IF attachments.t # "files"
    THEN JoinStrings([i \in 1..Len(attachments.v) |-> ""], " ")
    ELSE JoinStrings([i \in 1..Len(attachments.v) |->
                        JoinTruthy(<<Get(attachments.v[i], "name"),
                                     Get(attachments.v[i], "alternativeText"),
                                     Get(attachments.v[i], "caption")>>, " ")], " ")

\* document.<field> || ''
OrEmpty(document, f) == OrElse(Get(document, f), Str(""))

\* the fields of the nested filters object
FilterFields ==
    {"Client_Type", "Document_Type", "Document_Sub_Type", "Document_Confidentiality",
     "Industry", "Sub_Industry", "Service", "Sub_Service", "Business_Unit", "Region",
     "Country", "State", "City", "Commercial_Program", "Document_Outcome"}

\* a filters object that takes every entry from one field
FilterValueOfType(document, k) == OrEmpty(document, "Document_Type")

\* filters: { K: document.K || '' }
FilterValue(document, k) == OrEmpty(document, k)

\* the business fields projected with the empty-string fallback
ProjectedFields ==
    {"SF_Number", "Unique_Id", "Client_Name", "Client_Type", "Client_Contact",
     "Client_Contact_Buying_Center", "Client_Journey", "Document_Confidentiality",
     "Document_Type", "Document_Sub_Type", "Document_Value_Range", "Document_Outcome",
     "Last_Stage_Change_Date", "Industry", "Sub_Industry", "Service", "Sub_Service",
     "Business_Unit", "Region", "Country", "State", "City", "Author", "SMEs",
     "Commercial_Program", "Competitors"}

\* the system fields copied as they are
SystemFields == {"publishedAt", "createdAt", "updatedAt", "locale"}

\* the composite searchable text
searchableText(document, descriptionText, attachmentsText) ==
    ToLowerCase(JoinTruthy(<<Get(document, "SF_Number"),
                             Get(document, "Unique_Id"),
                             Get(document, "Client_Name"),
                             Get(document, "Client_Contact"),
                             Get(document, "Client_Contact_Buying_Center"),
                             Str(descriptionText),
                             Get(document, "Document_Confidentiality"),
                             Get(document, "Industry"),
                             Get(document, "Service"),
                             Get(document, "Author"),
                             Get(document, "SMEs"),
                             Get(document, "Competitors"),
                             Str(attachmentsText)>>, " "))

\* the document's fields other than its identifiers, shared by both variants
DocumentBody(document, descriptionText, attachmentsText) ==
    [f \in ProjectedFields \cup SystemFields
           \cup {"Description", "attachments_text", "searchableText", "filters"} |->
        CASE f \in ProjectedFields -> OrEmpty(document, f)
          [] f \in SystemFields -> Get(document, f)
          [] f = "Description" -> Str(descriptionText)
          [] f = "attachments_text" -> Str(attachmentsText)
          [] f = "searchableText" ->
                Str(searchableText(document, descriptionText, attachmentsText))
          [] OTHER -> Obj([k \in FilterFields |-> FilterValue(document, k)])]

\* transformDocumentForSearch: id is the row's internal id
transformDocumentForSearch(document) ==
    LET descriptionText == extractTextFromBlocks(Get(document, "Description"))
        attachmentsText == formatAttachments(Get(document, "Attachments"))
    IN Put(Put(DocumentBody(document, descriptionText, attachmentsText),
               "id", Get(document, "id")),
           "documentId", Get(document, "documentId"))

\* the searchableDocument of the inline indexToMeiliSearch: id is documentId || id
inlineSearchableDocument(document) ==
    LET descriptionText == extractTextFromBlocks(Get(document, "Description"))
        attachmentsText == formatAttachments(Get(document, "Attachments"))
    IN Put(Put(Put(Put(DocumentBody(document, descriptionText, attachmentsText),
                       "id", OrElse(Get(document, "documentId"), Get(document, "id"))),
                   "documentId", Get(document, "documentId")),
               "strapiId", Get(document, "id")),
           "description_text", Str(descriptionText))

---------------------------------------------------------------------------
(* The search engine, as the code uses it: add-or-replace and delete-one *)

Drop(o, f) == [k \in DOMAIN o \ {f} |-> o[k]]

\* an engine that stores every document it is sent under a key of its own
EngineAppendDocuments(idx, docs, pk) ==
    [k \in DOMAIN idx \cup {Num(1000 + Cardinality(DOMAIN idx))} |->
        IF k \in DOMAIN idx THEN idx[k] ELSE docs[Len(docs)]]

\* index.addDocuments(docs): each document replaces the one with its primary-key value;
\* of two documents of the batch with one key the later stays
EngineAddDocuments(idx, docs, pk) ==
    LET KeyAt(i) == Get(docs[i], pk)
        keys == {KeyAt(i) : i \in 1..Len(docs)}
        LastWith(k) == LET at == {i \in 1..Len(docs) : KeyAt(i) = k}
                       IN CHOOSE i \in at : \A j \in at : j <= i
    IN [k \in DOMAIN idx \cup keys |-> IF k \in keys THEN docs[LastWith(k)] ELSE idx[k]]

\* index.deleteDocument(key): no document with that key, nothing happens
EngineDeleteDocument(idx, key) == Drop(idx, key)

---------------------------------------------------------------------------
(* The requests the model issues and the answers of the outside world *)

Slots == 1..MaxTasks
InternalIds == 1..MaxRecords
DocumentIds == {Str("doc_a"), Str("doc_b")}
PublishedStamp == Str("2024-01-01")

\* { SF_Number: sf }, written as a function: a record field may not start with SF_
BusinessKey(sf) == "SF_Number" :> Str(sf)

CreatePayloads ==
    {BusinessKey("SF-1") @@ [publishedAt |-> PublishedStamp],
     BusinessKey("SF-1") @@ [publishedAt |-> JSNull, Client_Name |-> Str("Initech")],
     BusinessKey("SF-2") @@ [manualOverride |-> Bool(TRUE), publishedAt |-> PublishedStamp],
     [publishedAt |-> JSNull]}

UpdatePayloads ==
    {[publishedAt |-> PublishedStamp],
     [publishedAt |-> JSNull],
     BusinessKey("SF-2") @@ [publishedAt |-> PublishedStamp],
     BusinessKey("SF-1"),
     BusinessKey("SF-2"),
     BusinessKey("SF-2") @@ [manualOverride |-> Bool(TRUE)],
     [Client_Journey |-> Str("Renewal")]}

EnrichmentPayloads ==
    {[Client_Name |-> Str("Acme"), Industry |-> Str("Industry A"),
      Description |-> Str("Hello world")],
     \* a payload that also carries the business key, the flags and a field of its own
     BusinessKey("SF-9")
     @@ [Industry |-> Str("NotARealIndustry"), Author |-> Arr(<<"Ann", "Bob">>),
         Last_Stage_Change_Date |-> Str("2024-03-15T10:00:00Z"),
         manualOverride |-> Bool(TRUE), publishedAt |-> Str("2030-12-31"),
         Internal_Notes |-> Str("from the CRM")]}

\* what axios.get can come back with: a rejection (timeout, non-2xx status) or a response
EnrichmentOutcomes ==
    {[kind |-> "timeout", threw |-> TRUE, data |-> JSUndefined],
     [kind |-> "http_error", threw |-> TRUE, data |-> JSUndefined],
     [kind |-> "empty_body", threw |-> FALSE, data |-> Str("")],
     [kind |-> "malformed_body", threw |-> FALSE, data |-> Str("<html>")],
     [kind |-> "not_success", threw |-> FALSE, data |-> Obj([success |-> Bool(FALSE)])],
     [kind |-> "success_null_data", threw |-> FALSE,
      data |-> Obj([success |-> Bool(TRUE), data |-> JSNull])]}
    \cup {[kind |-> "success", threw |-> FALSE,
           data |-> Obj([success |-> Bool(TRUE), data |-> Obj(e)])] : e \in EnrichmentPayloads}

FailureKinds ==
    {"timeout", "http_error", "empty_body", "malformed_body", "not_success",
     "success_null_data"}

Idle == [pc |-> "idle"]

NewTask(op, pc, data, where) ==
    [op |-> op, pc |-> pc, data |-> data, where |-> where,
     result |-> EmptyObject,
     enrichCalls |-> 0,          \* axios.get calls issued
     engineCalls |-> << >>,      \* engine calls issued, in order
     isPublished |-> FALSE,
     raised |-> FALSE,           \* an exception left the hook
     \* what the claims compare against
     data0 |-> data,             \* the payload as the request brought it
     lookup |-> "none",          \* how the hook's store lookup ended
     existing |-> JSNull,        \* the row the pre-update lookup returned
     fetched |-> "none",         \* how the enrichment call ended
     apiData |-> JSUndefined,    \* the enrichment payload of a successful call
     engine |-> "none",          \* how the engine call ended
     storedPublishedAt |-> JSUndefined,  \* publishedAt in the store at the post-hook's lookup
     indexBefore |-> EmptyObject]        \* the index when the post-hook started

\* the request once the store has committed: the pre-hook's record is closed, the
\* post-hook gets the stored row as its result
PostTask(op, pc, where, row) ==
    [NewTask(op, pc, EmptyObject, where) EXCEPT !.result = row]

Settled(t) == t.pc \in {"idle", "done"}
AllSettled == \A s \in Slots : Settled(tasks[s])

---------------------------------------------------------------------------
(* The hooks' decisions, as operators *)

\* the same test without the manual-override flag
ShouldAutoPopulateIgnoringOverride(data) == Truthy(Get(data, "SF_Number"))

\* data.SF_Number && !data.manualOverride
ShouldAutoPopulate(data) ==
    Truthy(Get(data, "SF_Number")) /\ ~Truthy(Get(data, "manualOverride"))

\* the same test on a property the payload never has
isPublishOperationMisspelt(data) == HasOwnProperty(data, "published_at")

\* data.hasOwnProperty('publishedAt')
isPublishOperation(data) == HasOwnProperty(data, "publishedAt")

\* the same test without the comparison of the business keys
BusinessKeyChangedOnlyIfMissing(existingRecord, data) == ~Truthy(existingRecord)

\* !existingRecord || existingRecord.SF_Number !== data.SF_Number
BusinessKeyChanged(existingRecord, data) ==
    \/ ~Truthy(existingRecord)
    \/ Get(existingRecord.v, "SF_Number") # Get(data, "SF_Number")

\* the try block of fetchAndPopulateFromFastAPI, given what axios.get came back with
FetchAndPopulateBody(data, outcome) ==
    IF outcome.threw THEN [threw |-> TRUE, data |-> data]
    ELSE IF Truthy(outcome.data) /\ Truthy(ApiField(outcome.data, "success"))
    THEN mapAPIFieldsToStrapi(data, ApiField(outcome.data, "data"))
    ELSE [threw |-> FALSE, data |-> data]

\* fetchAndPopulateFromFastAPI with a catch that rethrows
fetchAndPopulateRethrowing(data, outcome) ==
    [raised |-> FetchAndPopulateBody(data, outcome).threw,
     data |-> FetchAndPopulateBody(data, outcome).data]

\* fetchAndPopulateFromFastAPI: its catch logs and does not rethrow
fetchAndPopulateFromFastAPI(data, outcome) ==
    [raised |-> FALSE, data |-> FetchAndPopulateBody(data, outcome).data]

\* strapi.entityService.findOne and strapi.db.query(...).findOne: the row, or null
StoreFindOne(id) == IF id \in DOMAIN store THEN Obj(store[id]) ELSE JSNull

\* checkIfDocumentIsPublished: a failed query counts as not published
checkIfDocumentIsPublished(threw, dbDoc) ==
    IF threw THEN FALSE
    ELSE /\ Truthy(dbDoc)
         /\ Get(dbDoc.v, "publishedAt").t # "null"
         /\ Get(dbDoc.v, "publishedAt").t # "undefined"

\* a post-hook whose catch around the engine call rethrows
PostHookRethrows(engineThrew) == engineThrew

\* the catch around the engine call in afterCreate, afterUpdate and afterDelete: it logs,
\* and nothing leaves the hook
PostHookRaises(engineThrew) == FALSE

\* result.documentId || result.id
RemovalKey(result) == OrElse(Get(result, "documentId"), Get(result, "id"))

---------------------------------------------------------------------------
(* State machine *)

\* no call of the Field Mapper on its own
NotMerged == [done |-> FALSE, threw |-> FALSE, data |-> EmptyObject]
MapperAtRest ==
    /\ target = EmptyObject
    /\ payload = JSUndefined
    /\ merged = NotMerged

\* no operation of the MeiliSearchManager called, no engine task waiting
NotCalled == [pc |-> "idle"]
ManagerAtRest ==
    /\ manager = NotCalled
    /\ pending = << >>
    /\ calls = 0

\* no call of the Document Transformer on its own
NotTransformed == [done |-> FALSE, doc |-> EmptyObject, mapped |-> JSUndefined]
NotUpserted == [calls |-> 0, prior |-> EmptyObject, once |-> EmptyObject]
TransformerAtRest ==
    /\ record = EmptyObject
    /\ searchable = NotTransformed
    /\ upserted = NotUpserted

\* the inline variant of the hooks is not subscribed
InlineAtRest == inlineIndex = EmptyObject

Init ==
    /\ store = EmptyObject
    /\ index = EmptyObject
    /\ primaryKey \in {"id", "documentId"}
    /\ tasks = [s \in Slots |-> Idle]
    /\ nextId = 1
    /\ ops = 0
    /\ faults = FALSE
    /\ revisions = {}
    /\ MapperAtRest
    /\ ManagerAtRest
    /\ TransformerAtRest
    /\ InlineAtRest

SetTask(s, t) == tasks' = [tasks EXCEPT ![s] = t]

\* a create request arrives
DispatchCreate(s, data) ==
    /\ AllSettled
    /\ ops < MaxOps
    /\ nextId <= MaxRecords
    /\ SetTask(s, NewTask("create", "beforeCreate", data, 0))
    /\ ops' = ops + 1
    /\ UNCHANGED <<store, index, primaryKey, nextId, faults, revisions>>
    /\ UNCHANGED <<mapperVars, managerVars, transformVars, variantVars>>

\* an update request arrives, for a row that may or may not exist
DispatchUpdate(s, id, data) ==
    /\ AllSettled
    /\ ops < MaxOps
    /\ SetTask(s, NewTask("update", "beforeUpdate", data, id))
    /\ ops' = ops + 1
    /\ UNCHANGED <<store, index, primaryKey, nextId, faults, revisions>>
    /\ UNCHANGED <<mapperVars, managerVars, transformVars, variantVars>>

\* a delete request arrives; no pre-delete hook is subscribed
DispatchDelete(s, id) ==
    /\ AllSettled
    /\ ops < MaxOps
    /\ id \in DOMAIN store
    /\ SetTask(s, NewTask("delete", "commit", EmptyObject, id))
    /\ ops' = ops + 1
    /\ UNCHANGED <<store, index, primaryKey, nextId, faults, revisions>>
    /\ UNCHANGED <<mapperVars, managerVars, transformVars, variantVars>>

\* beforeCreate, up to its await
BeforeCreate(s) ==
    LET t == tasks[s] IN
    /\ t.pc = "beforeCreate"
    /\ IF ShouldAutoPopulate(t.data)
       THEN SetTask(s, [t EXCEPT !.pc = "fetch", !.enrichCalls = @ + 1])
       ELSE SetTask(s, [t EXCEPT !.pc = "commit"])
    /\ UNCHANGED <<store, index, primaryKey, nextId, ops, faults, revisions>>
    /\ UNCHANGED <<mapperVars, managerVars, transformVars, variantVars>>

\* beforeUpdate, up to its first await
BeforeUpdate(s) ==
    LET t == tasks[s] IN
    /\ t.pc = "beforeUpdate"
    /\ IF isPublishOperation(t.data)
       THEN SetTask(s, [t EXCEPT !.pc = "commit"])
       ELSE IF ShouldAutoPopulate(t.data)
            THEN SetTask(s, [t EXCEPT !.pc = "findExisting"])
            ELSE SetTask(s, [t EXCEPT !.pc = "commit"])
    /\ UNCHANGED <<store, index, primaryKey, nextId, ops, faults, revisions>>
    /\ UNCHANGED <<mapperVars, managerVars, transformVars, variantVars>>

\* beforeUpdate, from the answer of entityService.findOne on
FindExisting(s, threw) ==
    LET t == tasks[s]
        existingRecord == StoreFindOne(t.where)
    IN
    /\ t.pc = "findExisting"
    /\ IF threw
       THEN SetTask(s, [t EXCEPT !.pc = "commit", !.lookup = "threw"])
       ELSE IF BusinessKeyChanged(existingRecord, t.data)
            THEN SetTask(s, [t EXCEPT !.pc = "fetch", !.lookup = "returned",
                                      !.existing = existingRecord,
                                      !.enrichCalls = @ + 1])
            ELSE SetTask(s, [t EXCEPT !.pc = "commit", !.lookup = "returned",
                                      !.existing = existingRecord])
    /\ UNCHANGED <<store, index, primaryKey, nextId, ops, faults, revisions>>
    /\ UNCHANGED <<mapperVars, managerVars, transformVars, variantVars>>

\* fetchAndPopulateFromFastAPI, from the answer of axios.get on; the pre-hook returns
Fetch(s, outcome) ==
    LET t == tasks[s]
        r == fetchAndPopulateFromFastAPI(t.data, outcome)
    IN
    /\ t.pc = "fetch"
    /\ SetTask(s, [t EXCEPT !.pc = IF r.raised THEN "done" ELSE "commit",
                            !.data = r.data,
                            !.raised = r.raised,
                            !.fetched = outcome.kind,
                            !.apiData = IF outcome.kind = "success"
                                        THEN outcome.data.v.data ELSE JSUndefined])
    /\ UNCHANGED <<store, index, primaryKey, nextId, ops, faults, revisions>>
    /\ UNCHANGED <<mapperVars, managerVars, transformVars, variantVars>>

\* the store inserts the row: a new logical document or a new revision of one
CommitCreate(s, documentId) ==
    LET t == tasks[s]
        row == Put(Put(IF HasOwnProperty(t.data, "publishedAt") THEN t.data
                       ELSE Put(t.data, "publishedAt", JSNull),
                       "id", Num(nextId)),
                   "documentId", documentId)
    IN
    /\ t.pc = "commit" /\ t.op = "create"
    /\ store' = Put(store, nextId, row)
    /\ nextId' = nextId + 1
    /\ SetTask(s, PostTask("create", "afterCreate", t.where, row))
    /\ revisions' = IF \E id \in DOMAIN store : Get(store[id], "documentId") = documentId
                    THEN revisions \cup {documentId} ELSE revisions
    /\ UNCHANGED <<index, primaryKey, ops, faults>>
    /\ UNCHANGED <<mapperVars, managerVars, transformVars, variantVars>>

\* the store writes the payload's fields into the row; without a row nothing is updated
\* and no post-update hook runs
CommitUpdate(s) ==
    LET t == tasks[s]
        row == t.data @@ store[t.where]
    IN
    /\ t.pc = "commit" /\ t.op = "update"
    /\ IF t.where \in DOMAIN store
       THEN /\ store' = Put(store, t.where, row)
            /\ SetTask(s, PostTask("update", "afterUpdate", t.where, row))
       ELSE /\ store' = store
            /\ SetTask(s, PostTask("update", "done", t.where, EmptyObject))
    /\ UNCHANGED <<index, primaryKey, nextId, ops, faults, revisions>>
    /\ UNCHANGED <<mapperVars, managerVars, transformVars, variantVars>>

\* the store deletes the row
CommitDelete(s) ==
    LET t == tasks[s] IN
    /\ t.pc = "commit" /\ t.op = "delete"
    /\ t.where \in DOMAIN store
    /\ store' = Drop(store, t.where)
    /\ SetTask(s, PostTask("delete", "afterDelete", t.where, store[t.where]))
    /\ UNCHANGED <<index, primaryKey, nextId, ops, faults, revisions>>
    /\ UNCHANGED <<mapperVars, managerVars, transformVars, variantVars>>

\* the row's publishedAt as the store holds it now
StoredPublishedAt(result) ==
    IF Get(result, "id").v \in DOMAIN store
    THEN Get(store[Get(result, "id").v], "publishedAt")
    ELSE JSUndefined

AddCall(result) ==
    [call |-> "addDocuments", id |-> Get(transformDocumentForSearch(result), "id"),
     documentId |-> Get(transformDocumentForSearch(result), "documentId")]
DeleteCall(result) == [call |-> "deleteDocument", key |-> RemovalKey(result)]

\* afterCreate, from the answer of checkIfDocumentIsPublished's query to its next await
AfterCreate(s, threw) ==
    LET t == tasks[s]
        isPublished == checkIfDocumentIsPublished(threw, StoreFindOne(Get(t.result, "id").v))
        seen == [t EXCEPT !.isPublished = isPublished,
                          !.lookup = IF threw THEN "threw" ELSE "returned",
                          !.storedPublishedAt = StoredPublishedAt(t.result),
                          !.indexBefore = index]
    IN
    /\ t.pc = "afterCreate"
    /\ IF isPublished
       THEN SetTask(s, [seen EXCEPT !.pc = "indexDocument",
                                    !.engineCalls = Append(@, AddCall(t.result))])
       ELSE SetTask(s, [seen EXCEPT !.pc = "done"])
    /\ faults' = (faults \/ threw)
    /\ UNCHANGED <<store, index, primaryKey, nextId, ops, revisions>>
    /\ UNCHANGED <<mapperVars, managerVars, transformVars, variantVars>>

\* afterUpdate, from the answer of checkIfDocumentIsPublished's query to its next await
AfterUpdate(s, threw) ==
    LET t == tasks[s]
        isPublished == checkIfDocumentIsPublished(threw, StoreFindOne(Get(t.result, "id").v))
        seen == [t EXCEPT !.isPublished = isPublished,
                          !.lookup = IF threw THEN "threw" ELSE "returned",
                          !.storedPublishedAt = StoredPublishedAt(t.result),
                          !.indexBefore = index]
    IN
    /\ t.pc = "afterUpdate"
    /\ IF isPublished
       THEN SetTask(s, [seen EXCEPT !.pc = "indexDocument",
                                    !.engineCalls = Append(@, AddCall(t.result))])
       ELSE SetTask(s, [seen EXCEPT !.pc = "removeDocument",
                                    !.engineCalls = Append(@, DeleteCall(t.result))])
    /\ faults' = (faults \/ threw)
    /\ UNCHANGED <<store, index, primaryKey, nextId, ops, revisions>>
    /\ UNCHANGED <<mapperVars, managerVars, transformVars, variantVars>>

\* afterDelete, up to its await
AfterDelete(s) ==
    LET t == tasks[s] IN
    /\ t.pc = "afterDelete"
    /\ SetTask(s, [t EXCEPT !.pc = "removeDocument",
                            !.indexBefore = index,
                            !.engineCalls = Append(@, DeleteCall(t.result))])
    /\ UNCHANGED <<store, index, primaryKey, nextId, ops, faults, revisions>>
    /\ UNCHANGED <<mapperVars, managerVars, transformVars, variantVars>>

\* manager.indexDocument(result) ends: the document is in the index, or the call failed
\* and the hook's catch logged it
IndexDocument(s, ok) ==
    LET t == tasks[s] IN
    /\ t.pc = "indexDocument"
    /\ index' = IF ok
                THEN EngineAddDocuments(index, <<transformDocumentForSearch(t.result)>>,
                                        primaryKey)
                ELSE index
    /\ SetTask(s, [t EXCEPT !.pc = "done", !.engine = IF ok THEN "ok" ELSE "failed",
                            !.raised = PostHookRaises(~ok)])
    /\ faults' = (faults \/ ~ok)
    /\ UNCHANGED <<store, primaryKey, nextId, ops, revisions>>
    /\ UNCHANGED <<mapperVars, managerVars, transformVars, variantVars>>

\* manager.removeDocument(result.documentId || result.id) ends, likewise
RemoveDocument(s, ok) ==
    LET t == tasks[s] IN
    /\ t.pc = "removeDocument"
    /\ index' = IF ok THEN EngineDeleteDocument(index, RemovalKey(t.result)) ELSE index
    /\ SetTask(s, [t EXCEPT !.pc = "done", !.engine = IF ok THEN "ok" ELSE "failed",
                            !.raised = PostHookRaises(~ok)])
    /\ faults' = (faults \/ ~ok)
    /\ UNCHANGED <<store, primaryKey, nextId, ops, revisions>>
    /\ UNCHANGED <<mapperVars, managerVars, transformVars, variantVars>>

\* the slot a new request takes
FreeSlot == CHOOSE s \in Slots : \A x \in Slots : s <= x

Next ==
    \/ \E data \in CreatePayloads : DispatchCreate(FreeSlot, data)
    \/ \E id \in InternalIds, data \in UpdatePayloads : DispatchUpdate(FreeSlot, id, data)
    \/ \E id \in InternalIds : DispatchDelete(FreeSlot, id)
    \/ \E s \in Slots : BeforeCreate(s)
    \/ \E s \in Slots : BeforeUpdate(s)
    \/ \E s \in Slots, threw \in BOOLEAN : FindExisting(s, threw)
    \/ \E s \in Slots, outcome \in EnrichmentOutcomes : Fetch(s, outcome)
    \/ \E s \in Slots, documentId \in DocumentIds : CommitCreate(s, documentId)
    \/ \E s \in Slots : CommitUpdate(s)
    \/ \E s \in Slots : CommitDelete(s)
    \/ \E s \in Slots, threw \in BOOLEAN : AfterCreate(s, threw)
    \/ \E s \in Slots, threw \in BOOLEAN : AfterUpdate(s, threw)
    \/ \E s \in Slots : AfterDelete(s)
    \/ \E s \in Slots, ok \in BOOLEAN : IndexDocument(s, ok)
    \/ \E s \in Slots, ok \in BOOLEAN : RemoveDocument(s, ok)

Spec == Init /\ [][Next]_vars

---------------------------------------------------------------------------
(* Properties *)

\* a request's record, or the idle record for a free slot
Task(s) == tasks[s]

\* the pre-hook of a create or update has decided (it awaits the enrichment, or returned)
PreHookDecided(t, op) == t.pc \in {"fetch", "commit"} /\ t.op = op

\* the pre-hook of a create or update has returned and the store has not committed yet
PreHookReturned(t, op) == t.pc = "commit" /\ t.op = op

\* the post-hook of the request has run to completion
PostHookDone(t, op) == t.pc = "done" /\ t.op = op /\ t.result # EmptyObject

NonNull(x) == x.t # "null" /\ x.t # "undefined"

\* the names of the properties of either object
FieldsOf(a, b) == DOMAIN a \cup DOMAIN b

\* the field is the same in both objects: the same value, or in neither
SameField(a, b, f) ==
    /\ HasOwnProperty(a, f) <=> HasOwnProperty(b, f)
    /\ Get(a, f) = Get(b, f)

\* the index entries made from a row with this documentId
EntriesOf(idx, documentId) ==
    {k \in DOMAIN idx : Get(idx[k], "documentId") = documentId}

\* the stored rows of a logical document that are published
PublishedRows(documentId) ==
    {id \in DOMAIN store : /\ Get(store[id], "documentId") = documentId
                           /\ NonNull(Get(store[id], "publishedAt"))}

\* C1: once every hook has run to completion (with every engine call and store lookup
\* answered, and one row per logical document), the index holds a document for a record
\* if and only if the record is in the store with a non-null publishedAt
C1_IndexedIffPublished ==
    (AllSettled /\ ~faults /\ revisions = {}) =>
        \A d \in DocumentIds : (EntriesOf(index, d) # {}) <=> (PublishedRows(d) # {})

\* C2: the documents of two revisions of one logical record (same documentId, different
\* internal id) take one entry of the index: no documentId has two entries
C2_OneEntryPerDocumentId ==
    \A d \in DocumentIds : Cardinality(EntriesOf(index, d)) <= 1

\* C3: after a post-update hook for a record whose persisted publishedAt is null, with the
\* engine call succeeded, the index holds no document for that record
C3_UnpublishRemoves ==
    \A s \in Slots :
        (/\ PostHookDone(Task(s), "update")
         /\ Task(s).storedPublishedAt = JSNull
         /\ Task(s).engine = "ok")
        => EntriesOf(index, Get(Task(s).result, "documentId")) = {}

\* C4: after the post-delete hook of a record that had an indexed document, with the engine
\* call succeeded, the index holds no document for that record (so a search for the
\* record's business key cannot hit one)
C4_DeleteRemoves ==
    \A s \in Slots :
        (/\ PostHookDone(Task(s), "delete")
         /\ EntriesOf(Task(s).indexBefore, Get(Task(s).result, "documentId")) # {}
         /\ Task(s).engine = "ok")
        => /\ EntriesOf(index, Get(Task(s).result, "documentId")) = {}
           /\ \A k \in DOMAIN index :
                  Get(index[k], "id") # Get(Task(s).result, "id")

\* C5: the post-create hook upserts the record if and only if the record's publishedAt is
\* non-null; for a draft it issues no engine call and leaves the index as it was
C5_PostCreateUpsertsIffPublished ==
    \A s \in Slots :
        (Task(s).pc \in {"indexDocument", "done"} /\ Task(s).op = "create")
        => IF NonNull(Get(Task(s).result, "publishedAt"))
           THEN Task(s).engineCalls = <<AddCall(Task(s).result)>>
           ELSE Task(s).engineCalls = << >> /\ index = Task(s).indexBefore

\* C6: what a post-create or post-update hook does is decided by the publishedAt the store
\* holds for the record alone: non-null, an upsert; null, a removal (post-update) or
\* nothing (post-create)
C6_DecisionByPersistedPublishedAt ==
    \A s \in Slots :
        (/\ Task(s).pc \in {"indexDocument", "removeDocument", "done"}
         /\ Task(s).op \in {"create", "update"}
         /\ Task(s).result # EmptyObject)
        => Task(s).engineCalls =
               IF NonNull(Task(s).storedPublishedAt) THEN <<AddCall(Task(s).result)>>
               ELSE IF Task(s).op = "update" THEN <<DeleteCall(Task(s).result)>>
               ELSE << >>

\* C7: a pre-update hook whose payload has the publishedAt field, alone or with other
\* fields, returns at once: no store lookup, no enrichment call, the payload as it came
C7_PublishGuardIsNoOp ==
    \A s \in Slots :
        (/\ Task(s).pc \in {"findExisting", "fetch", "commit"}
         /\ Task(s).op = "update"
         /\ HasOwnProperty(Task(s).data0, "publishedAt"))
        => /\ Task(s).pc = "commit"
           /\ Task(s).lookup = "none"
           /\ Task(s).enrichCalls = 0
           /\ Task(s).data = Task(s).data0

\* a publish payload that also changes the business key of a stored row went through the
\* pre-update hook
C7_Witness ==
    \E s \in Slots :
        /\ PreHookReturned(Task(s), "update")
        /\ HasOwnProperty(Task(s).data0, "publishedAt")
        /\ Truthy(Get(Task(s).data0, "SF_Number"))
        /\ Task(s).where \in DOMAIN store
        /\ Get(store[Task(s).where], "SF_Number") # Get(Task(s).data0, "SF_Number")

\* C8: the pre-create hook calls the enrichment service exactly once if the pending record
\* has an SF_Number and no manualOverride, and otherwise not at all, leaving the record
\* as it came; after a successful call every assignment of the Field Mapper is in the
\* pending record when the hook returns
C8_PreCreateEnrichesOnce ==
    \A s \in Slots :
        PreHookDecided(Task(s), "create") =>
            LET t == Task(s)
                wanted == /\ Truthy(Get(t.data0, "SF_Number"))
                          /\ ~Truthy(Get(t.data0, "manualOverride"))
            IN /\ t.enrichCalls = IF wanted THEN 1 ELSE 0
               /\ ~wanted => (t.pc = "commit" /\ t.data = t.data0)
               /\ (t.pc = "commit" /\ t.fetched = "success") =>
                      \A i \in 1..Len(FieldMappings) :
                          Populated(t.data0, t.apiData, i) # t.data0 =>
                              /\ HasOwnProperty(t.data, FieldMappings[i].field)
                              /\ t.data[FieldMappings[i].field] =
                                     Populated(t.data0, t.apiData, i)[FieldMappings[i].field]

\* a pre-create hook returned after a successful enrichment that filled in the client name
C8_Witness ==
    \E s \in Slots :
        /\ PreHookReturned(Task(s), "create")
        /\ Task(s).fetched = "success"
        /\ Task(s).enrichCalls = 1
        /\ ~HasOwnProperty(Task(s).data0, "Client_Name")
        /\ Get(Task(s).data, "Client_Name") = Str("Acme")

\* the payload of a pre-update hook that gets as far as the business key
KeyedUpdate(t) ==
    /\ PreHookDecided(t, "update")
    /\ ~HasOwnProperty(t.data0, "publishedAt")
    /\ Truthy(Get(t.data0, "SF_Number"))
    /\ ~Truthy(Get(t.data0, "manualOverride"))

\* the stored row the lookup returned has another SF_Number than the payload
StoredKeyDiffers(t) ==
    /\ t.existing # JSNull
    /\ Get(t.existing.v, "SF_Number") # Get(t.data0, "SF_Number")

\* C9, as the code has it: for a pre-update payload without publishedAt, with an SF_Number
\* and no manualOverride, the enrichment service is called (once) if and only if the
\* store lookup returns, and returns no row or a row with another SF_Number; if the lookup
\* throws, or the stored SF_Number equals the payload's, no call is made
C9_EnrichesIffLookupReturnsChangedKey ==
    \A s \in Slots :
        KeyedUpdate(Task(s)) =>
            LET t == Task(s) IN
            /\ t.lookup \in {"returned", "threw"}
            /\ t.enrichCalls =
                   IF t.lookup = "returned" /\ (t.existing = JSNull \/ StoredKeyDiffers(t))
                   THEN 1 ELSE 0
            /\ t.enrichCalls = 0 => (t.pc = "commit" /\ t.data = t.data0)

\* the lookup of a pre-update hook threw for a stored row with another SF_Number, and the
\* hook returned without a call
C9_Witness ==
    \E s \in Slots :
        /\ KeyedUpdate(Task(s))
        /\ Task(s).lookup = "threw"
        /\ Task(s).where \in DOMAIN store
        /\ Get(store[Task(s).where], "SF_Number") # Get(Task(s).data0, "SF_Number")
        /\ Task(s).enrichCalls = 0

\* C9, as stated: the enrichment service is called if and only if no stored record is
\* found (the lookup found none, or found nothing because it threw) or the stored
\* SF_Number differs from the payload's
C9_EnrichesIffNoneFoundOrChangedKey ==
    \A s \in Slots :
        KeyedUpdate(Task(s)) =>
            (Task(s).enrichCalls = 1 <=>
                 (Task(s).existing = JSNull \/ StoredKeyDiffers(Task(s))))

\* C10: the pre-create and pre-update hooks never raise; after a timeout, an HTTP error,
\* an empty or malformed body or a response without the success flag, the pending record
\* is as the request brought it and the save goes on
C10_PreHooksNeverRaise ==
    \A s \in Slots :
        (Task(s).pc # "idle" /\ Task(s).op \in {"create", "update"}) =>
            /\ ~Task(s).raised
            /\ Task(s).fetched \in FailureKinds =>
                   (Task(s).pc = "commit" /\ Task(s).data = Task(s).data0)

\* a pre-update hook returned after its enrichment call timed out
C10_Witness ==
    \E s \in Slots :
        /\ PreHookReturned(Task(s), "update")
        /\ Task(s).fetched = "timeout"
        /\ Task(s).enrichCalls = 1

\* the store holds what the request committed: the row of a create or update as the
\* post-hook got it, no row after a delete
CommittedAsWas(t) ==
    IF t.op = "delete"
    THEN Get(t.result, "id").v \notin DOMAIN store
    ELSE /\ Get(t.result, "id").v \in DOMAIN store
         /\ store[Get(t.result, "id").v] = t.result

\* C11: when the engine call of a post-create, post-update or post-delete hook fails, the
\* hook completes without raising and the committed record is neither changed nor rolled
\* back
C11_PostHooksSwallowEngineFailure ==
    \A s \in Slots :
        (Task(s).pc = "done" /\ Task(s).engine = "failed") =>
            /\ ~Task(s).raised
            /\ Len(Task(s).engineCalls) = 1
            /\ CommittedAsWas(Task(s))

\* the removal of a post-delete hook failed, the document of the deleted row is still in
\* the index and the row is gone from the store
C11_Witness ==
    \E s \in Slots :
        /\ Task(s).pc = "done" /\ Task(s).op = "delete"
        /\ Task(s).engine = "failed"
        /\ index # EmptyObject
        /\ Get(Task(s).result, "id").v \notin DOMAIN store

\* C29: when the store lookup that tells the publication state fails during a post-update
\* hook, the hook leaves the index as it was; it does not remove the document of a row
\* whose persisted publishedAt is non-null
C29_FailedLookupLeavesIndex ==
    \A s \in Slots :
        (PostHookDone(Task(s), "update") /\ Task(s).lookup = "threw")
        => index = Task(s).indexBefore

\* the fields the Field Mapper must leave alone: the business key, the two flags, and
\* every field that is not one of the recognized enrichment fields
ProtectedFields(a, b) ==
    {"SF_Number", "manualOverride", "publishedAt"} \cup (FieldsOf(a, b) \ MappedFields)

\* C33: the enrichment merge never changes the pending record's SF_Number, manualOverride
\* or publishedAt, nor any field outside the recognized enrichment fields: from the start
\* of a pre-create or pre-update hook to its return, whatever the enrichment service
\* answered, each of those fields has the value the request brought, or is still absent
C33_MergeLeavesOtherFields ==
    \A s \in Slots :
        (Task(s).pc \in {"findExisting", "fetch", "commit"}
         /\ Task(s).op \in {"create", "update"}) =>
            \A f \in ProtectedFields(Task(s).data0, Task(s).data) :
                SameField(Task(s).data0, Task(s).data, f)

\* a pre-create hook returned after a successful enrichment whose payload has another
\* SF_Number, a manualOverride flag, a publishedAt date and a field of its own: the merge
\* filled in the author, and the draft record kept its key and its null publishedAt
C33_Witness ==
    \E s \in Slots :
        /\ PreHookReturned(Task(s), "create")
        /\ Task(s).fetched = "success"
        /\ ApiField(Task(s).apiData, "SF_Number") = Str("SF-9")
        /\ ApiField(Task(s).apiData, "publishedAt") = Str("2030-12-31")
        /\ ApiField(Task(s).apiData, "manualOverride") = Bool(TRUE)
        /\ ApiField(Task(s).apiData, "Internal_Notes") = Str("from the CRM")
        /\ Get(Task(s).data, "Author") = Str("Ann, Bob")
        /\ Get(Task(s).data, "SF_Number") = Str("SF-1")
        /\ Get(Task(s).data, "publishedAt") = JSNull
        /\ ~HasOwnProperty(Task(s).data, "manualOverride")
        /\ ~HasOwnProperty(Task(s).data, "Internal_Notes")

---------------------------------------------------------------------------
(* Updates of one record whose hooks interleave *)

\* the record the updates are for, as a draft or published
RaceRow(publishedAt) ==
    BusinessKey("SF-1")
    @@ [id |-> Num(1), documentId |-> Str("doc_a"), publishedAt |-> publishedAt]

\* a publish and an unpublish
PublishUpdates == {[publishedAt |-> PublishedStamp], [publishedAt |-> JSNull]}

\* one update request per slot has arrived for the record; the index holds the record's
\* document if and only if the record is published
RaceInit ==
    /\ \E publishedAt \in {JSNull, PublishedStamp} :
           /\ store = (1 :> RaceRow(publishedAt))
           /\ primaryKey \in {"id", "documentId"}
           /\ index = IF publishedAt = JSNull THEN EmptyObject
                      ELSE EngineAddDocuments(
                               EmptyObject,
                               <<transformDocumentForSearch(RaceRow(publishedAt))>>,
                               primaryKey)
    /\ tasks \in [Slots -> {NewTask("update", "beforeUpdate", data, 1) : data \in PublishUpdates}]
    /\ nextId = 2
    /\ ops = MaxTasks
    /\ faults = FALSE
    /\ revisions = {}
    /\ MapperAtRest
    /\ ManagerAtRest
    /\ TransformerAtRest
    /\ InlineAtRest

\* each request runs its hooks and its commit on its own, in any interleaving with the
\* other
RaceNext ==
    \/ \E s \in Slots : BeforeUpdate(s)
    \/ \E s \in Slots : CommitUpdate(s)
    \/ \E s \in Slots, threw \in BOOLEAN : AfterUpdate(s, threw)
    \/ \E s \in Slots, ok \in BOOLEAN : IndexDocument(s, ok)
    \/ \E s \in Slots, ok \in BOOLEAN : RemoveDocument(s, ok)

RaceSpec == RaceInit /\ [][RaceNext]_vars

\* C30: when a publish update and then an unpublish update of one record have been
\* committed and their post-update hooks interleave at their awaits, then once both hooks
\* have ended (every lookup and engine call answered, the engine keyed by documentId) the
\* index holds no document for the record: it matches the last committed state
C30_InterleavedHooksMatchLastCommit ==
    (/\ AllSettled
     /\ ~faults
     /\ primaryKey = "documentId"
     /\ \E s \in Slots : /\ PostHookDone(Task(s), "update")
                         /\ Get(Task(s).result, "publishedAt") = PublishedStamp
     /\ \E s \in Slots : /\ PostHookDone(Task(s), "update")
                         /\ Get(Task(s).result, "publishedAt") = JSNull
     /\ Get(store[1], "publishedAt") = JSNull)
    => EntriesOf(index, Str("doc_a")) = {}

---------------------------------------------------------------------------
(* The Field Mapper on its own: mapAPIFieldsToStrapi over targets and payloads *)

\* nothing created, nothing indexed, no hook running
HooksAtRest ==
    /\ store = EmptyObject
    /\ index = EmptyObject
    /\ primaryKey = "id"
    /\ tasks = [s \in Slots |-> Idle]
    /\ nextId = 1
    /\ ops = 0
    /\ faults = FALSE
    /\ revisions = {}

\* a property the object does not have
Absent == [t |-> "absent"]

\* an object with the property set to the value, or without the property
WithField(o, f, x) == IF x = Absent THEN Drop(o, f) ELSE Put(o, f, x)

\* what a field of the pending record can hold: business fields are text, the
\* description is rich text
TargetValues(f) ==
    {Absent, JSUndefined, JSNull, Str(""), Str("Existing")}
    \cup (IF f = "Description"
          THEN {Blocks(<< >>),
                Blocks(<<[type |-> "paragraph",
                          children |-> <<[type |-> "text", text |-> "Old"]>>]>>)}
          ELSE {})

\* what a field of the loosely typed enrichment payload can hold
PayloadValues(f) ==
    {Absent, JSUndefined, JSNull, Str(""), Str("Acme"), Str("NotARealIndustry"),
     Str("2024-03-15T10:00:00Z"), Str("2024-02-30"), Str("not-a-date"),
     Num(0), Num(7), Bool(FALSE), Bool(TRUE), Arr(<< >>), Arr(<<"Ann", "Bob">>)}
    \cup (IF f \in DOMAIN schemaEnums THEN {Str(v) : v \in schemaEnums[f]} ELSE {})

\* the rest of the pending record and of the payload: the first and the last mapping
TargetRest == BusinessKey("SF-1") @@ [Client_Journey |-> Str("Renewal")]
PayloadRest == [Unique_Id |-> Str("U-1"), SMEs |-> Arr(<<"Cy", "Di">>)]

\* response.data.data when it is no object of fields
OddPayloads == {JSUndefined, JSNull, Str("oops"), Num(5), Arr(<<"Ann">>)}

MapperInit ==
    /\ HooksAtRest
    /\ ManagerAtRest
    /\ TransformerAtRest
    /\ InlineAtRest
    /\ merged = NotMerged
    /\ \E f \in MappedFields :
           /\ \E x \in TargetValues(f) : target = WithField(TargetRest, f, x)
           /\ \/ \E y \in PayloadValues(f) : payload = Obj(WithField(PayloadRest, f, y))
              \/ payload \in OddPayloads

\* mapAPIFieldsToStrapi(strapiData, apiData) is called
Merge ==
    /\ ~merged.done
    /\ merged' = [done |-> TRUE,
                  threw |-> mapAPIFieldsToStrapi(target, payload).threw,
                  data |-> mapAPIFieldsToStrapi(target, payload).data]
    /\ UNCHANGED <<target, payload>>
    /\ UNCHANGED <<hookVars, managerVars, transformVars, variantVars>>

MapperNext == Merge

MapperSpec == MapperInit /\ [][MapperNext]_vars

\* an empty value: the empty string, null or undefined
IsEmptyValue(x) == x \in {Str(""), JSNull, JSUndefined}

\* the value the payload has for the field
PayloadField(f) == ApiField(payload, f)

\* C12: after the Field Mapper ran, every field of the target that was non-empty has the
\* value it had; a field is assigned only if it was empty (empty string, null or
\* undefined) and the enrichment value is defined, non-null and not the empty string
C12_MapperKeepsNonEmptyFields ==
    merged.done =>
        \A f \in FieldsOf(target, merged.data) :
            /\ ~IsEmptyValue(Get(target, f)) => SameField(target, merged.data, f)
            /\ ~SameField(target, merged.data, f) =>
                   /\ IsEmptyValue(Get(target, f))
                   /\ ~IsEmptyValue(PayloadField(f))

\* the Field Mapper ran on a target with a non-empty client type and a payload that has
\* another, valid client type: the target's value stayed, and an empty field was filled
C12_Witness ==
    /\ merged.done
    /\ Get(target, "Client_Type") = Str("Existing")
    /\ PayloadField("Client_Type") = Str("Client")
    /\ Get(merged.data, "Client_Type") = Str("Existing")
    /\ ~HasOwnProperty(target, "Unique_Id")
    /\ Get(merged.data, "Unique_Id") = Str("U-1")

\* the enrichment value is a member of the field's allow-list
InAllowList(f, x) == IsString(x) /\ x.v \in schemaEnums[f]

\* C13: for each enum-constrained field that is empty in the target, an enrichment value
\* outside the field's allow-list leaves the field as it was and raises nothing, a value
\* of the allow-list is assigned; afterwards the field holds nothing or a member of the
\* allow-list
C13_EnumFieldsTakeOnlyAllowedValues ==
    (merged.done /\ payload.t = "object") =>
        /\ ~merged.threw
        /\ \A i \in 1..Len(EnumFields) :
               LET f == EnumFields[i] IN
               IsEmptyValue(Get(target, f)) =>
                   /\ InAllowList(f, PayloadField(f)) => Get(merged.data, f) = PayloadField(f)
                   /\ ~InAllowList(f, PayloadField(f)) => SameField(target, merged.data, f)
                   /\ \/ IsEmptyValue(Get(merged.data, f))
                      \/ InAllowList(f, Get(merged.data, f))

\* C14: the Field Mapper never raises, whatever the target and the payload (a missing or
\* null payload, fields of unexpected type); a field it cannot use is skipped and the
\* other fields are still merged
C14_MapperNeverRaises ==
    merged.done =>
        /\ ~merged.threw
        /\ \A i \in 1..Len(FieldMappings) :
               SameField(Populated(target, payload, i), merged.data, FieldMappings[i].field)

---------------------------------------------------------------------------
(* MeiliSearchManager: refreshIndex, clearIndex, rebuildIndex, getIndexStats *)

batchSize == 100          \* const batchSize = 100
WaitTimeout == 30000      \* waitForTask(timeout = 30000)
PollInterval == 1000      \* setTimeout(resolve, 1000)

Min(a, b) == IF a < b THEN a ELSE b

\* the rows of the store a rebuild works on
PublishedRow(i) ==
    BusinessKey("SF-" \o NatText(i))
    @@ [id |-> Num(i), documentId |-> Str("doc_" \o NatText(i)),
        publishedAt |-> PublishedStamp]
DraftRow(i) ==
    BusinessKey("SF-" \o NatText(i))
    @@ [id |-> Num(i), documentId |-> Str("doc_" \o NatText(i)), publishedAt |-> JSNull]

\* a store of n published rows and one draft
StoreOf(n) == [i \in 1..(n + 1) |-> IF i <= n THEN PublishedRow(i) ELSE DraftRow(i)]

\* the numbers of published rows the model starts with: none, one, around one batch,
\* several batches
RebuildSizes == {0, 1, batchSize, batchSize + 1, MaxDocuments}

\* an index holding the document of a row that is no longer in the store
StaleIndex(pk) ==
    EngineAddDocuments(EmptyObject, <<transformDocumentForSearch(PublishedRow(0))>>, pk)

\* entityService.findMany(..., { publicationState: 'live', limit: -1 }): the published
\* rows, all of them, by ascending id
LiveDocuments ==
    LET IsLive(id) == /\ id \in DOMAIN store
                      /\ Get(store[id], "publishedAt").t \notin {"null", "undefined"}
        live == SelectSeq([id \in 1..(nextId - 1) |-> id], IsLive)
    IN [k \in 1..Len(live) |-> store[live[k]]]

\* history: the ids of the fetched rows of a batch that the store no longer holds as
\* published rows when the batch is submitted
NoLongerPublished(batch) ==
    LET IsLive(id) == /\ id \in DOMAIN store
                      /\ Get(store[id], "publishedAt").t \notin {"null", "undefined"}
    IN {Get(batch[k], "id") : k \in {j \in 1..Len(batch) : ~IsLive(Get(batch[j], "id").v)}}

\* searchableDocuments.slice(i, i + batchSize)
BatchOf(searchableDocuments, i) ==
    SubSeq(searchableDocuments, i + 1, Min(i + batchSize, Len(searchableDocuments)))

\* documents.map(doc => this.transformDocumentForSearch(doc))
SearchableDocuments(documents) ==
    [k \in 1..Len(documents) |-> transformDocumentForSearch(documents[k])]

\* a tally that counts a failed batch as one
TallyPerBatch(counts, size, ok) ==
    IF ok THEN [counts EXCEPT !.indexed = @ + size]
    ELSE [counts EXCEPT !.skipped = @ + 1]

\* indexed += batch.length, or in the catch skipped += batch.length
Tally(counts, size, ok) ==
    IF ok THEN [counts EXCEPT !.indexed = @ + size]
    ELSE [counts EXCEPT !.skipped = @ + size]

\* a loop that gives up after a failed batch
NextBatchStartOrGiveUp(i, ok, n) == IF ok THEN i + batchSize ELSE n

\* for (...; i += batchSize): the catch inside the loop lets it go on
NextBatchStart(i, ok, n) == i + batchSize

\* a clearIndex whose catch does not rethrow
clearIndexSwallows(deleteThrew) == FALSE

\* clearIndex: its catch logs and rethrows; waitForTask never throws
clearIndexThrows(deleteThrew) == deleteThrew

NoCounts == [indexed |-> 0, skipped |-> 0]

\* return { indexed, skipped }
Counts(counts) == Obj([indexed |-> Num(counts.indexed), skipped |-> Num(counts.skipped)])

\* a refreshIndex that lets the error through
refreshIndexRethrows(threw, result) ==
    [raised |-> threw,
     value |-> Obj([success |-> Bool(TRUE), stats |-> Counts(result)])]

\* refreshIndex: what it returns after clearIndex and rebuildIndex, or from its catch
refreshIndex(threw, result) ==
    [raised |-> FALSE,
     value |-> IF threw
               THEN Obj([success |-> Bool(FALSE), message |-> Str("Index refresh failed: ")])
               ELSE Obj([success |-> Bool(TRUE),
                         message |-> Str("Index refreshed successfully. Indexed "
                                         \o NatText(result.indexed) \o " documents."),
                         stats |-> Counts(result)])]

\* the operations that write no document to the index and delete none
Readers == {"stats"}

NoSummary == [op |-> "none", raised |-> FALSE, cleared |-> "no"]
NoResponse == [status |-> 0, body |-> JSUndefined]

\* the controller's endpoint of the operation: ctx.send of the result, or from its catch
\* ctx.internalServerError
Respond(op, raised, value) ==
    IF raised THEN [status |-> 500, body |-> Str("Internal Server Error")]
    ELSE [status |-> 200,
          body |-> CASE op = "refresh" ->
                            Obj([success |-> Get(value.v, "success"),
                                 message |-> Get(value.v, "message"),
                                 data |-> Get(value.v, "stats")])
                     [] op = "rebuild" ->
                            Obj([success |-> Bool(TRUE),
                                 message |-> Str("Index rebuilt successfully. Indexed "
                                                 \o NatText(Get(value.v, "indexed").v)
                                                 \o " documents."),
                                 data |-> value])
                     [] op = "clear" ->
                            Obj([success |-> Bool(TRUE),
                                 message |-> Str("Index cleared successfully")])
                     [] OTHER -> Obj([data |-> value])]

\* the call of an operation, at its first await
NewCall(op, last) ==
    [op |-> op,
     pc |-> CASE op \in {"refresh", "clear"} -> "deleteAll"
              [] op = "rebuild" -> "findMany"
              [] OTHER -> "getStats",
     elapsed |-> 0,              \* Date.now() - startTime in waitForTask
     documents |-> << >>,        \* what findMany returned
     i |-> 0,                    \* the loop variable of rebuildIndex
     counts |-> NoCounts,        \* indexed and skipped
     raised |-> FALSE,           \* the operation threw
     value |-> JSUndefined,      \* what the operation returned
     \* what the claims compare against
     cleared |-> "no",           \* how clearIndex ended: not yet, or "deleteFailed",
                                 \* "pollFailed", "reported", "timeout"
     rebuilt |-> "no",           \* how rebuildIndex ended: not yet, or "threw", "done"
     submitted |-> << >>,        \* the addDocuments calls of rebuildIndex, in order
     response |-> NoResponse,    \* what the endpoint of the operation answered
     \* the operation called before and how it ended, for an operation that only reads
     last |-> IF op \in Readers THEN last ELSE NoSummary]

\* how the call ended, for the call after it
Summary(m) ==
    IF m.pc = "idle" THEN NoSummary
    ELSE [op |-> m.op, raised |-> m.raised, cleared |-> m.cleared]

\* the operation returns or throws
Finished(m, raised, value) ==
    [m EXCEPT !.pc = "returned", !.raised = raised, !.value = value,
              !.response = Respond(m.op, raised, value),
              \* the locals of the operation are gone
              !.elapsed = 0, !.documents = << >>, !.i = 0]

\* clearIndex ends inside the call m: by itself, or as the first step of refreshIndex
ClearEnds(m, deleteThrew, how) ==
    LET c == [m EXCEPT !.cleared = how] IN
    IF clearIndexThrows(deleteThrew)
    THEN (IF m.op = "refresh"
          THEN Finished(c, refreshIndex(TRUE, NoCounts).raised,
                           refreshIndex(TRUE, NoCounts).value)
          ELSE Finished(c, TRUE, JSUndefined))
    ELSE (IF m.op = "refresh"
          THEN [c EXCEPT !.pc = "findMany", !.elapsed = 0]
          ELSE Finished(c, FALSE, JSUndefined))

\* rebuildIndex ends inside the call m: by itself, or as the second step of refreshIndex
RebuildEnds(m, threw, counts) ==
    LET r == [m EXCEPT !.rebuilt = IF threw THEN "threw" ELSE "done"] IN
    IF m.op = "refresh"
    THEN Finished(r, refreshIndex(threw, counts).raised, refreshIndex(threw, counts).value)
    ELSE Finished(r, threw, IF threw THEN JSUndefined ELSE Counts(counts))

ManagerFrame ==
    UNCHANGED <<store, primaryKey, tasks, nextId, ops, faults, revisions, mapperVars, transformVars,
                variantVars>>

\* an operation of the manager is called, once the one before has ended; the operations
\* that write to the index are counted, the others are not
Call(op) ==
    /\ manager.pc \in {"idle", "returned"}
    /\ op \notin Readers => calls < MaxCalls
    /\ manager' = NewCall(op, Summary(manager))
    /\ calls' = IF op \in Readers THEN calls ELSE calls + 1
    /\ UNCHANGED <<index, pending>>
    /\ ManagerFrame

\* clearIndex, from the answer of index.deleteAllDocuments() on: the engine took the task,
\* or the call failed
DeleteAllDocuments(ok) ==
    /\ manager.pc = "deleteAll"
    /\ IF ok
       THEN /\ pending' = Append(pending, [kind |-> "deleteAll", docs |-> << >>])
            /\ manager' = [manager EXCEPT !.pc = "wait", !.elapsed = 0]
       ELSE /\ pending' = pending
            /\ manager' = ClearEnds(manager, TRUE, "deleteFailed")
    /\ UNCHANGED <<index, calls>>
    /\ ManagerFrame

\* waitForTask, one turn of its loop from the answer of index.getStats() on: the poll
\* fails (break), the engine is not indexing (return), or it is (sleep)
Poll(answer) ==
    /\ manager.pc = "wait"
    /\ manager.elapsed < WaitTimeout
    /\ answer = "indexing" => pending # << >>
    /\ manager' = CASE answer = "threw" -> ClearEnds(manager, FALSE, "pollFailed")
                    [] answer = "notIndexing" -> ClearEnds(manager, FALSE, "reported")
                    [] OTHER -> [manager EXCEPT !.pc = "sleep"]
    /\ UNCHANGED <<index, pending, calls>>
    /\ ManagerFrame

\* waitForTask's loop ends because the timeout has elapsed
WaitTimedOut ==
    /\ manager.pc = "wait"
    /\ manager.elapsed >= WaitTimeout
    /\ manager' = ClearEnds(manager, FALSE, "timeout")
    /\ UNCHANGED <<index, pending, calls>>
    /\ ManagerFrame

\* a clock that stands still
ClockStuck(elapsed) == elapsed

\* Date.now() - startTime, one pause later
AfterPause(elapsed) == elapsed + PollInterval

\* the pause between two polls is over
Sleep ==
    /\ manager.pc = "sleep"
    /\ manager' = [manager EXCEPT !.pc = "wait", !.elapsed = AfterPause(@)]
    /\ UNCHANGED <<index, pending, calls>>
    /\ ManagerFrame

\* rebuildIndex, from the answer of entityService.findMany on, to its first batch
FindMany(threw) ==
    /\ manager.pc = "findMany"
    /\ manager' = IF threw THEN RebuildEnds(manager, TRUE, NoCounts)
                  ELSE IF Len(LiveDocuments) = 0 THEN RebuildEnds(manager, FALSE, NoCounts)
                  ELSE [manager EXCEPT !.pc = "batch", !.documents = LiveDocuments, !.i = 0]
    /\ UNCHANGED <<index, pending, calls>>
    /\ ManagerFrame

\* rebuildIndex, the head of its loop: the next batch goes to the engine, or the loop is
\* over and the counts are returned
RebuildLoop ==
    /\ manager.pc = "batch"
    /\ manager' =
           IF manager.i < Len(manager.documents)
           THEN [manager EXCEPT
                     !.pc = "addDocuments",
                     !.submitted = Append(@, [start |-> manager.i,
                                              first |-> Get(manager.documents[manager.i + 1], "id"),
                                              size |-> Len(BatchOf(manager.documents, manager.i)),
                                              gone |-> NoLongerPublished(
                                                           BatchOf(manager.documents, manager.i)),
                                              outcome |-> "pending"])]
           ELSE RebuildEnds(manager, FALSE, manager.counts)
    /\ UNCHANGED <<index, pending, calls>>
    /\ ManagerFrame

\* rebuildIndex, from the answer of index.addDocuments(batch) on: the engine took the
\* batch, or the call failed and the catch counted it
AddDocuments(ok) ==
    LET batch == BatchOf(manager.documents, manager.i) IN
    /\ manager.pc = "addDocuments"
    /\ pending' = IF ok
                  THEN Append(pending, [kind |-> "add", docs |-> SearchableDocuments(batch)])
                  ELSE pending
    /\ manager' = [manager EXCEPT
                       !.pc = "batch",
                       !.counts = Tally(@, Len(batch), ok),
                       !.i = NextBatchStart(@, ok, Len(manager.documents)),
                       !.submitted[Len(manager.submitted)].outcome =
                           IF ok THEN "ok" ELSE "failed"]
    /\ UNCHANGED <<index, calls>>
    /\ ManagerFrame

\* getIndexStats, from the answers of index.getStats() and index.getSettings() on
GetStats(threw, isIndexing) ==
    /\ manager.pc = "getStats"
    /\ isIndexing => pending # << >>
    /\ manager' = IF threw THEN Finished(manager, TRUE, JSUndefined)
                  ELSE Finished(manager, FALSE,
                                Obj([numberOfDocuments |-> Num(Cardinality(DOMAIN index)),
                                     isIndexing |-> Bool(isIndexing)]))
    /\ UNCHANGED <<index, pending, calls>>
    /\ ManagerFrame

\* the engine applies the oldest task it has accepted
EngineProcess ==
    /\ pending # << >>
    /\ index' = IF Head(pending).kind = "deleteAll" THEN EmptyObject
                ELSE EngineAddDocuments(index, Head(pending).docs, primaryKey)
    /\ pending' = Tail(pending)
    /\ UNCHANGED <<manager, calls>>
    /\ ManagerFrame

ManagerInit ==
    /\ \E n \in RebuildSizes : store = StoreOf(n) /\ nextId = n + 2
    /\ primaryKey \in {"id", "documentId"}
    /\ index \in {EmptyObject, StaleIndex(primaryKey)}
    /\ tasks = [s \in Slots |-> Idle]
    /\ ops = 0
    /\ faults = FALSE
    /\ revisions = {}
    /\ MapperAtRest
    /\ ManagerAtRest
    /\ TransformerAtRest
    /\ InlineAtRest

ManagerNext ==
    \/ \E op \in {"refresh", "clear", "rebuild", "stats"} : Call(op)
    \/ \E ok \in BOOLEAN : DeleteAllDocuments(ok)
    \/ \E answer \in {"threw", "notIndexing", "indexing"} : Poll(answer)
    \/ WaitTimedOut
    \/ Sleep
    \/ \E threw \in BOOLEAN : FindMany(threw)
    \/ RebuildLoop
    \/ \E ok \in BOOLEAN : AddDocuments(ok)
    \/ \E threw \in BOOLEAN, isIndexing \in BOOLEAN : GetStats(threw, isIndexing)
    \/ EngineProcess

ManagerSpec == ManagerInit /\ [][ManagerNext]_vars

\* every await of clearIndex is answered and every timer fires: the engine answers the
\* delete-all request and each poll, the event loop ends each pause
ManagerLiveSpec ==
    /\ ManagerSpec
    /\ WF_vars(\E ok \in BOOLEAN : DeleteAllDocuments(ok))
    /\ WF_vars(\E answer \in {"threw", "notIndexing", "indexing"} : Poll(answer))
    /\ WF_vars(WaitTimedOut)
    /\ WF_vars(Sleep)

---------------------------------------------------------------------------
(* Properties of the MeiliSearchManager *)

\* the sizes of the submitted batches with the outcome, added up
RECURSIVE SizeSum(_, _)
SizeSum(submitted, outcome) ==
    IF submitted = << >> THEN 0
    ELSE (IF Head(submitted).outcome = outcome THEN Head(submitted).size ELSE 0)
         + SizeSum(Tail(submitted), outcome)

\* the batches n documents make
Batches(n) == (n + batchSize - 1) \div batchSize

\* the operation has returned without throwing
Returned(op) == manager.pc = "returned" /\ manager.op = op /\ ~manager.raised

\* the k-th submitted batch is the k-th slice of the published rows, by ascending id
IsSlice(k) ==
    LET b == manager.submitted[k] IN
    /\ b.start = (k - 1) * batchSize
    /\ b.size = Min(batchSize, Len(LiveDocuments) - b.start)
    /\ b.first = Get(LiveDocuments[b.start + 1], "id")

\* C15: a rebuild over N published rows submits them as consecutive batches of 100, the
\* last one smaller when 100 does not divide N, and returns {indexed, skipped}: indexed is
\* the total size of the batches the engine accepted, skipped the total size of the
\* batches whose submission failed, and the two add up to N
C15_RebuildCountsEveryRecord ==
    Returned("rebuild") =>
        LET indexed == SizeSum(manager.submitted, "ok")
            skipped == SizeSum(manager.submitted, "failed")
        IN /\ Len(manager.submitted) = Batches(Len(LiveDocuments))
           /\ \A k \in 1..Len(manager.submitted) : IsSlice(k)
           /\ manager.value = Counts([indexed |-> indexed, skipped |-> skipped])
           /\ indexed + skipped = Len(LiveDocuments)

\* a rebuild over 250 published rows has returned: three batches of 100, 100 and 50, the
\* second one failed, and the result is {indexed: 150, skipped: 100}
C15_Witness ==
    /\ Returned("rebuild")
    /\ Len(LiveDocuments) = 250
    /\ [k \in 1..Len(manager.submitted) |-> manager.submitted[k].size] = <<100, 100, 50>>
    /\ [k \in 1..Len(manager.submitted) |-> manager.submitted[k].outcome]
           = <<"ok", "failed", "ok">>
    /\ manager.value = Counts([indexed |-> 150, skipped |-> 100])

\* C16: a rebuild submits its batches one at a time and in source order: a batch is
\* submitted only after the engine call of the one before has returned or failed; a batch
\* that fails does not end the rebuild, and every later batch is still submitted, once
C16_RebuildSubmitsBatchesInTurn ==
    manager.pc # "idle" =>
    /\ \A k \in 1..Len(manager.submitted) :
           /\ IsSlice(k)
           /\ k < Len(manager.submitted) => manager.submitted[k].outcome # "pending"
    /\ manager.pc = "addDocuments" <=>
           (manager.submitted # << >>
            /\ manager.submitted[Len(manager.submitted)].outcome = "pending")
    /\ (manager.pc = "returned" /\ manager.rebuilt = "done") =>
           Len(manager.submitted) = Batches(Len(LiveDocuments))

\* a rebuild over several batches has returned: the first batch failed, the ones after it
\* were submitted and accepted
C16_Witness ==
    /\ Returned("rebuild")
    /\ Len(manager.submitted) = 3
    /\ manager.submitted[1].outcome = "failed"
    /\ manager.submitted[2].outcome = "ok"
    /\ manager.submitted[3].outcome = "ok"

\* C17: a refresh never throws: when clearIndex or rebuildIndex fails it returns
\* success = false and a message, when both complete it returns success = true and the
\* counts of the rebuild
C17_RefreshNeverRaises ==
    (manager.pc = "returned" /\ manager.op = "refresh") =>
        /\ ~manager.raised
        /\ manager.value.t = "object"
        /\ IF manager.cleared = "deleteFailed" \/ manager.rebuilt = "threw"
           THEN /\ Get(manager.value.v, "success") = Bool(FALSE)
                /\ IsString(Get(manager.value.v, "message"))
           ELSE /\ manager.rebuilt = "done"
                /\ Get(manager.value.v, "success") = Bool(TRUE)
                /\ Get(manager.value.v, "stats")
                       = Counts([indexed |-> SizeSum(manager.submitted, "ok"),
                                 skipped |-> SizeSum(manager.submitted, "failed")])

\* a refresh whose rebuild failed after the index was cleared has returned success = false
C17_Witness ==
    /\ manager.pc = "returned"
    /\ manager.op = "refresh"
    /\ manager.cleared = "reported"
    /\ manager.rebuilt = "threw"
    /\ ~manager.raised
    /\ Get(manager.value.v, "success") = Bool(FALSE)

\* C18: in a refresh the rebuild starts only after clearIndex has returned: no batch is
\* submitted before the delete-all request and the wait after it have ended, and when
\* clearIndex fails no batch is submitted at all
C18_RefreshRebuildsAfterClear ==
    manager.pc # "idle" /\ manager.op = "refresh" =>
        /\ (manager.pc \in {"findMany", "batch", "addDocuments"}
            \/ manager.submitted # << >>
            \/ manager.rebuilt # "no") =>
               manager.cleared \in {"reported", "timeout", "pollFailed"}
        /\ manager.cleared = "deleteFailed" =>
               /\ manager.pc = "returned"
               /\ manager.submitted = << >>
               /\ manager.rebuilt = "no"

\* a refresh whose delete-all request failed has returned, and no batch was submitted
C18_Witness ==
    /\ manager.pc = "returned"
    /\ manager.op = "refresh"
    /\ manager.cleared = "deleteFailed"
    /\ manager.submitted = << >>
    /\ Len(LiveDocuments) > 0

\* C19: clearIndex returns normally only after the engine, polled after the delete-all
\* request, has reported that it is not indexing, or after the timeout of 30 s has
\* elapsed, and in no other case, such as a failed poll
C19_ClearReturnsOnReportOrTimeout ==
    Returned("clear") => manager.cleared \in {"reported", "timeout"}

\* C20: when clearIndex has returned normally and no operation has touched the index
\* since, the getIndexStats called next reports a document count of 0
C20_StatsAfterClearReportsZero ==
    (/\ Returned("stats")
     /\ manager.last.op = "clear"
     /\ ~manager.last.raised) =>
        Get(manager.value.v, "numberOfDocuments") = Num(0)

\* the operation behind the endpoint has failed: it threw, or as a refresh it caught the
\* failure of clearIndex or rebuildIndex
OperationFailed(m) == m.raised \/ m.cleared = "deleteFailed" \/ m.rebuilt = "threw"

\* C24: whenever the operation behind a management endpoint fails, the endpoint answers
\* with a response of the 500 class, never with a normal response
C24_FailedOperationAnswers500 ==
    (manager.pc = "returned" /\ OperationFailed(manager)) => manager.response.status = 500

\* the documents the index holds
IndexedDocuments == {index[k] : k \in DOMAIN index}

\* the documents of the rows that are published now
PublishedDocuments ==
    {transformDocumentForSearch(LiveDocuments[k]) : k \in 1..Len(LiveDocuments)}

C32_RefreshSucceedsOnlyWithoutSkips ==
    (manager.pc = "returned" /\ manager.op = "refresh") =>
        /\ Get(manager.value.v, "success") = Bool(TRUE) =>
               /\ SizeSum(manager.submitted, "failed") = 0
               /\ Get(Get(manager.value.v, "stats").v, "skipped") = Num(0)
        /\ SizeSum(manager.submitted, "failed") > 0 =>
               Get(manager.value.v, "success") = Bool(FALSE)

\* clearIndex is running, by itself or as the first step of a refresh
Clearing == manager.pc \in {"deleteAll", "wait", "sleep"}

\* C26: clearIndex always ends: also when the engine answers every poll with "still
\* indexing", the wait ends once the timeout has elapsed, and clearIndex returns
C26_ClearTerminates == Clearing ~> ~Clearing

\* clearIndex has returned because the timeout elapsed, the engine still busy
C26_Witness ==
    /\ Returned("clear")
    /\ manager.cleared = "timeout"
    /\ pending # << >>

---------------------------------------------------------------------------
(* A rebuild or refresh while a record is unpublished or deleted *)

\* the numbers of published rows: one row, and one row more than a batch
RebuildRaceSizes == {1, batchSize + 1}

\* the index an engine keyed by pk holds of a store of n published rows: the document of
\* each row under the row's key
IndexOf(n, pk) ==
    LET KeyOf(i) == Get(PublishedRow(i), pk)
    IN [key \in {KeyOf(i) : i \in 1..n} |->
           transformDocumentForSearch(PublishedRow(CHOOSE i \in 1..n : KeyOf(i) = key))]

\* the request for the record: an unpublish, or a delete
RebuildRaceRequests(id) ==
    {NewTask("update", "beforeUpdate", [publishedAt |-> JSNull], id),
     NewTask("delete", "commit", EmptyObject, id)}

\* the request has arrived for the first or the last published row, no operation of the
\* manager has been called, and the index holds the documents of the published rows
RebuildRaceInit ==
    /\ \E n \in RebuildRaceSizes :
           /\ store = StoreOf(n)
           /\ nextId = n + 2
           /\ \E id \in {1, n} : \E request \in RebuildRaceRequests(id) :
                  tasks = [s \in Slots |-> IF s = 1 THEN request ELSE Idle]
    /\ primaryKey \in {"id", "documentId"}
    /\ index = IndexOf(nextId - 2, primaryKey)
    /\ ops = MaxOps
    /\ faults = FALSE
    /\ revisions = {}
    /\ MapperAtRest
    /\ ManagerAtRest
    /\ TransformerAtRest
    /\ InlineAtRest

\* the engine applies its tasks in the order it accepted them: the removal a hook asks for
\* takes effect after every task accepted before it
RemoveDocumentInTurn(s, ok) ==
    /\ pending = << >>
    /\ RemoveDocument(s, ok)

\* the manager's operation and the request's hooks go on in any interleaving
RebuildRaceNext ==
    \/ \E op \in {"refresh", "rebuild"} : Call(op)
    \/ \E ok \in BOOLEAN : DeleteAllDocuments(ok)
    \/ \E answer \in {"threw", "notIndexing", "indexing"} : Poll(answer)
    \/ WaitTimedOut
    \/ Sleep
    \/ \E threw \in BOOLEAN : FindMany(threw)
    \/ RebuildLoop
    \/ \E ok \in BOOLEAN : AddDocuments(ok)
    \/ EngineProcess
    \/ \E s \in Slots : BeforeUpdate(s)
    \/ \E s \in Slots : CommitUpdate(s)
    \/ \E s \in Slots : CommitDelete(s)
    \/ \E s \in Slots, threw \in BOOLEAN : AfterUpdate(s, threw)
    \/ \E s \in Slots : AfterDelete(s)
    \/ \E s \in Slots, ok \in BOOLEAN : RemoveDocumentInTurn(s, ok)

RebuildRaceSpec == RebuildRaceInit /\ [][RebuildRaceNext]_vars

\* C31: when a record is unpublished or deleted after a rebuild (by itself or in a
\* refresh) has fetched the published rows and before the record's batch is submitted,
\* then once the rebuild has returned, the record's post-update or post-delete hook has
\* ended and the engine has applied every task (no call failed, the engine keyed by
\* documentId), the index holds no document for the record
C31_RebuildLeavesNoUnpublishedRecord ==
    \A s \in Slots :
        (/\ Task(s).pc = "done"
         /\ Task(s).op \in {"update", "delete"}
         /\ Task(s).result # EmptyObject
         /\ manager.pc = "returned"
         /\ manager.rebuilt = "done"
         /\ \E k \in 1..Len(manager.submitted) :
                Get(Task(s).result, "id") \in manager.submitted[k].gone
         /\ pending = << >>
         /\ ~faults
         /\ primaryKey = "documentId")
        => EntriesOf(index, Get(Task(s).result, "documentId")) = {}

---------------------------------------------------------------------------
(* Document Transformer and upsert on their own: transformDocumentForSearch, *)
(* extractTextFromBlocks, indexDocument                                      *)

Paragraph(texts) ==
    [type |-> "paragraph", children |-> [i \in 1..Len(texts) |-> [type |-> "text", text |-> texts[i]]]]
\* blocks without children, and with children none of which is text-typed
ImageBlock == [type |-> "image", image |-> "chart.png"]
LinkChild == [type |-> "link", url |-> "https://example.org"]
LinkBlock == [type |-> "paragraph", children |-> <<LinkChild>>]

\* what the rich-text Description of a stored row can hold
DescriptionValues ==
    {Absent, JSNull,
     Blocks(<< >>),
     Blocks(<<Paragraph(<<"Alpha">>)>>),
     Blocks(<<Paragraph(<<"Alpha">>), Paragraph(<<"Beta">>)>>),
     Blocks(<<Paragraph(<<"Alpha", "Beta">>)>>),
     Blocks(<<Paragraph(<< >>)>>),
     Blocks(<<ImageBlock>>),
     Blocks(<<LinkBlock>>),
     Blocks(<<Paragraph(<<"Alpha">>), ImageBlock, Paragraph(<<"Beta">>)>>),
     Blocks(<<Paragraph(<<"Alpha">>), LinkBlock, Paragraph(<<"Beta">>)>>),
     Blocks(<<[type |-> "paragraph",
               children |-> <<[type |-> "text", text |-> "Alpha"], LinkChild,
                              [type |-> "text", text |-> "Beta"]>>]>>),
     Blocks(<<Paragraph(<<"Alpha">>), Paragraph(<< >>)>>)}

\* the identifiers every row has
RowIdentifiers == [id |-> Num(1), documentId |-> Str("doc_a")]

\* a row with a value in every field
FullRecord ==
    [f \in ProjectedFields |-> Str("The " \o f)]
    @@ [publishedAt |-> PublishedStamp, createdAt |-> Str("2023-12-31"),
        updatedAt |-> Str("2024-01-02"), locale |-> Str("en"),
        Description |-> Blocks(<<Paragraph(<<"Alpha">>)>>),
        Attachments |-> Files(<<[name |-> Str("deck.pdf"), caption |-> Str("Deck")]>>)]
    @@ RowIdentifiers

\* a row whose optional fields are all absent, and one whose optional fields are all null
BareRecord == RowIdentifiers
NullRecord ==
    [f \in ProjectedFields \cup SystemFields \cup {"Description", "Attachments"} |-> JSNull]
    @@ RowIdentifiers

\* the rows the transformer is given: the three above, and the full row with one field
\* absent, null or empty, or with another description
SourceRecords ==
    {FullRecord, BareRecord, NullRecord}
    \cup {WithField(FullRecord, f, x) :
              f \in ProjectedFields \cup SystemFields, x \in {Absent, JSNull, Str("")}}
    \cup {WithField(FullRecord, "Description", x) : x \in DescriptionValues}

\* the plain description strings an enrichment payload brings
DescriptionStrings == {"Hello world", "hello", "  Padded  ", "Q3 Review: APAC"}

\* the states of the index an upsert can meet: empty, holding an earlier version of the
\* row, holding the document of another row
PriorIndexes(row, pk) ==
    {EmptyObject,
     EngineAddDocuments(EmptyObject,
                        <<transformDocumentForSearch(Put(row, "Client_Name", Str("Before")))>>,
                        pk),
     EngineAddDocuments(EmptyObject,
                        <<transformDocumentForSearch(
                              Put(Put(FullRecord, "id", Num(2)), "documentId", Str("doc_b")))>>,
                        pk)}

TransformInit ==
    /\ store = EmptyObject
    /\ tasks = [s \in Slots |-> Idle]
    /\ nextId = 1
    /\ ops = 0
    /\ faults = FALSE
    /\ revisions = {}
    /\ MapperAtRest
    /\ ManagerAtRest
    /\ InlineAtRest
    /\ record \in SourceRecords
    /\ primaryKey \in {"id", "documentId"}
    /\ index \in PriorIndexes(record, primaryKey)
    /\ searchable = NotTransformed
    /\ upserted = [calls |-> 0, prior |-> index, once |-> index]

TransformFrame ==
    UNCHANGED <<store, primaryKey, tasks, nextId, ops, faults, revisions, mapperVars, managerVars,
                variantVars>>

\* mapAPIFieldsToStrapi merges a plain description string into the row's empty Description
Populate(s) ==
    /\ ~searchable.done
    /\ upserted.calls = 0
    /\ searchable.mapped = JSUndefined
    /\ ~Truthy(Get(record, "Description"))
    /\ record' = mapAPIFieldsToStrapi(record, Obj([Description |-> Str(s)])).data
    /\ searchable' = [searchable EXCEPT !.mapped = Str(s)]
    /\ UNCHANGED <<index, upserted>>
    /\ TransformFrame

\* transformDocumentForSearch(record) is called
Transform ==
    /\ ~searchable.done
    /\ searchable' = [searchable EXCEPT !.done = TRUE,
                                        !.doc = transformDocumentForSearch(record)]
    /\ UNCHANGED <<index, record, upserted>>
    /\ TransformFrame

\* indexDocument(record) is called and the engine has applied its addDocuments
Upsert ==
    /\ upserted.calls < MaxUpserts
    /\ index' = EngineAddDocuments(index, <<transformDocumentForSearch(record)>>, primaryKey)
    /\ upserted' = [upserted EXCEPT !.calls = @ + 1,
                                    !.once = IF upserted.calls = 0 THEN index' ELSE @]
    /\ UNCHANGED <<record, searchable>>
    /\ TransformFrame

TransformNext ==
    \/ \E s \in DescriptionStrings : Populate(s)
    \/ Transform
    \/ Upsert

TransformSpec == TransformInit /\ [][TransformNext]_vars

IndexedDocumentShape ==
    ProjectedFields \cup SystemFields
    \cup {"id", "documentId", "Description", "attachments_text", "searchableText", "filters"}

\* C22: the transformer is total: for every row, also one whose optional fields are all
\* absent or null, the document has every field of the indexed document, no value of it
\* is null or undefined, and a business field the row has no value for is the empty string
C22_TransformerIsTotal ==
    searchable.done =>
        /\ DOMAIN searchable.doc = IndexedDocumentShape
        /\ \A f \in DOMAIN searchable.doc : ~IsNullish(searchable.doc[f])
        /\ \A k \in FilterFields : ~IsNullish(Get(searchable.doc["filters"].v, k))
        /\ \A f \in ProjectedFields :
               IsNullish(Get(record, f)) => searchable.doc[f] = Str("")

\* C27: in every transformed document, for each of the 15 keys of the nested filters
\* object, filters.K equals the top-level field K, and both are the empty string when the
\* row has no value for K
C27_FiltersMirrorTopLevel ==
    searchable.done =>
        LET filters == searchable.doc["filters"].v IN
        /\ DOMAIN filters = FilterFields
        /\ Cardinality(FilterFields) = 15
        /\ \A k \in FilterFields :
               /\ filters[k] = searchable.doc[k]
               /\ IsNullish(Get(record, k)) => filters[k] = Str("")

\* a row with a client type and without a region was transformed: filters has the client
\* type, and the empty string as region, as the top level has
C27_Witness ==
    /\ searchable.done
    /\ record = WithField(FullRecord, "Region", Absent)
    /\ Get(searchable.doc["filters"].v, "Client_Type") = Str("The Client_Type")
    /\ Get(searchable.doc["filters"].v, "Region") = Str("")
    /\ searchable.doc["Region"] = Str("")

\* the texts of the text-typed children of a block
TextsOfBlock(block) ==
    IF "children" \in DOMAIN block
    THEN LET texts == SelectSeq(block.children, LAMBDA child : child.type = "text")
         IN [i \in 1..Len(texts) |-> texts[i].text]
    ELSE << >>

RECURSIVE TextsOf(_)
\* the texts of the text-typed children of all blocks, in document order
TextsOf(blocks) ==
    IF blocks = << >> THEN << >>
    ELSE TextsOfBlock(Head(blocks)) \o TextsOf(Tail(blocks))

\* C28: the plain-text rendering of a rich-text description is the texts of all text-typed
\* children of all blocks, in document order, separated by exactly one space, without a
\* leading or trailing space, for every list of blocks, also one with blocks that have no
\* children or no text-typed children
C28_PlainTextIsTextsJoinedByOneSpace ==
    (searchable.done /\ Get(record, "Description").t = "blocks") =>
        searchable.doc["Description"]
            = Str(Trim(JoinStrings(TextsOf(Get(record, "Description").v), " ")))

\* the text contains the other text
Includes(text, part) ==
    \E i \in 1..(Len(text) - Len(part) + 1) : SubSeq(text, i, i + Len(part) - 1) = part

\* the plain description string merged into the row
MappedDescription == searchable.mapped.v

---------------------------------------------------------------------------
(* The two variants of the post-hooks side by side: the hooks of index.ts, which go *)
(* through the MeiliSearchManager, and the inline hooks of unnamed/part_000         *)

MaxEvents == 3         \* the create, update and delete events of one run

\* afterCreate, afterUpdate and afterDelete of index.ts on the committed row, every lookup
\* and engine call succeeding: what they make of the index
ManagedIndexAfter(op, idx, result, pk) ==
    LET isPublished == checkIfDocumentIsPublished(FALSE, Obj(result)) IN
    CASE op = "create" ->
             IF isPublished
             THEN EngineAddDocuments(idx, <<transformDocumentForSearch(result)>>, pk)
             ELSE idx
      [] op = "update" ->
             IF isPublished
             THEN EngineAddDocuments(idx, <<transformDocumentForSearch(result)>>, pk)
             ELSE EngineDeleteDocument(idx, RemovalKey(result))
      [] OTHER -> EngineDeleteDocument(idx, RemovalKey(result))

\* afterCreate, afterUpdate and afterDelete of the inline variant: they decide by
\* result.publishedAt and call indexToMeiliSearch or removeFromMeiliSearch
InlineIndexAfter(op, idx, result, pk) ==
    LET isPublished == Truthy(Get(result, "publishedAt")) IN
    CASE op = "create" ->
             IF isPublished
             THEN EngineAddDocuments(idx, <<inlineSearchableDocument(result)>>, pk)
             ELSE idx
      [] op = "update" ->
             IF isPublished
             THEN EngineAddDocuments(idx, <<inlineSearchableDocument(result)>>, pk)
             ELSE EngineDeleteDocument(idx, RemovalKey(result))
      [] OTHER -> EngineDeleteDocument(idx, RemovalKey(result))

\* two deployments over one store, each with an empty index, the engines keyed alike
VariantsInit ==
    /\ store = EmptyObject
    /\ index = EmptyObject
    /\ inlineIndex = EmptyObject
    /\ primaryKey \in {"id", "documentId"}
    /\ tasks = [s \in Slots |-> Idle]
    /\ nextId = 1
    /\ ops = 0
    /\ faults = FALSE
    /\ revisions = {}
    /\ MapperAtRest
    /\ ManagerAtRest
    /\ TransformerAtRest

VariantsFrame ==
    UNCHANGED <<primaryKey, tasks, faults, revisions, mapperVars, managerVars, transformVars>>

\* a record is created, and the post-create hook of either variant has run
Created(data, documentId) ==
    LET row == Put(Put(IF HasOwnProperty(data, "publishedAt") THEN data
                       ELSE Put(data, "publishedAt", JSNull),
                       "id", Num(nextId)),
                   "documentId", documentId)
    IN
    /\ ops < MaxEvents
    /\ nextId <= MaxRecords
    /\ store' = Put(store, nextId, row)
    /\ nextId' = nextId + 1
    /\ ops' = ops + 1
    /\ index' = ManagedIndexAfter("create", index, row, primaryKey)
    /\ inlineIndex' = InlineIndexAfter("create", inlineIndex, row, primaryKey)
    /\ VariantsFrame

\* a record is updated, and the post-update hook of either variant has run
Updated(id, data) ==
    LET row == data @@ store[id] IN
    /\ ops < MaxEvents
    /\ id \in DOMAIN store
    /\ store' = Put(store, id, row)
    /\ ops' = ops + 1
    /\ index' = ManagedIndexAfter("update", index, row, primaryKey)
    /\ inlineIndex' = InlineIndexAfter("update", inlineIndex, row, primaryKey)
    /\ UNCHANGED nextId
    /\ VariantsFrame

\* a record is deleted, and the post-delete hook of either variant has run
Deleted(id) ==
    /\ ops < MaxEvents
    /\ id \in DOMAIN store
    /\ store' = Drop(store, id)
    /\ ops' = ops + 1
    /\ index' = ManagedIndexAfter("delete", index, store[id], primaryKey)
    /\ inlineIndex' = InlineIndexAfter("delete", inlineIndex, store[id], primaryKey)
    /\ UNCHANGED nextId
    /\ VariantsFrame

VariantsNext ==
    \/ \E data \in CreatePayloads, documentId \in DocumentIds : Created(data, documentId)
    \/ \E id \in InternalIds, data \in UpdatePayloads : Updated(id, data)
    \/ \E id \in InternalIds : Deleted(id)

VariantsSpec == VariantsInit /\ [][VariantsNext]_vars

\* C34: the hooks of index.ts and the inline hooks of unnamed/part_000 are equivalent on
\* the index: run side by side over any sequence of create, update and delete events,
\* every store lookup and engine call succeeding, they leave the same set of index keys
\* after every event
C34_VariantsLeaveSameKeys == DOMAIN index = DOMAIN inlineIndex

===========================================================================
